---- MODULE Spec2Model ----
(***************************************************************************)
(* A model of the husk diagnostics stack: the framed serial link of the    *)
(* Arduino driver (byte stuffing, CRC-8, ACK/NACK with retries), and the   *)
(* frame broadcaster.  Bytes are the integers 0..255.                      *)
(***************************************************************************)
EXTENDS Integers, Sequences, FiniteSets, TLC

(***************************************************************************)
(* Program constants of the driver.                                        *)
(***************************************************************************)
ArduinoStartMarker == 126
ArduinoEndMarker == 127
ArduinoEscapeChar == 27
ArduinoACK == 6
ArduinoNACK == 21
ArduinoMaxRetries == 3
ArduinoACKTimeout == 100
ArduinoRetryDelay == 200
ArduinoExponentialBackoffFactor == 2
\* the largest DLC readFrame accepts
MaxDLC == 8

(***************************************************************************)
(* Bounds of the model.                                                    *)
(***************************************************************************)
\* capacity of the driver's channels and of a subscriber queue (128 in the
\* source), scaled down
ChanCap == 2
\* longest data field of the generated test frames
MaxDataLen == 1
\* longest generated raw frame body
MaxBodyLen == 2
\* subscriber channels a broadcaster may hand out, and Broadcast calls
MaxSubs == 2
MaxBroadcasts == 4
\* concurrent callers of SendFrame
NumCallers == 2
\* frames the device sends of its own while callers send
MaxInbound == 1
\* answers and frames the device has sent that the port has yet to deliver
MaxInFlight == 1
\* chunks of a script of inbound bytes
MaxChunks == 2
\* frames published to the ISO-TP layer's subscriptions during one Send call,
\* and during one Read call
MaxPublished == 2
MaxReceived == 4
\* channels the message broadcaster hands out, messages the ECU handler's read
\* loop broadcasts, and TesterPresent messages its keep-alive loop sends
MaxMsgChans == 6
MaxMessages == 3
MaxTesterPresents == 1
\* concurrent callers of a Cleanup
NumCleaners == 2

\* a read of the port that times out (n = 0): the device pauses here
GAP == -1
\* a read of the port that fails with io.EOF, and with another error
EOFTOKEN == -2
ERRTOKEN == -3

(***************************************************************************)
(* Sequence helpers.                                                       *)
(***************************************************************************)
IsPrefix(s, t) == Len(s) <= Len(t) /\ SubSeq(t, 1, Len(s)) = s

RECURSIVE SeqsUpTo(_, _)
SeqsUpTo(S, n) ==
    IF n = 0 THEN {<<>>}
    ELSE LET shorter == SeqsUpTo(S, n - 1)
         IN  shorter \cup {Append(s, x) : s \in {t \in shorter : Len(t) = n - 1}, x \in S}

(***************************************************************************)
(* CRC-8, polynomial 0x07, as calculateCRC8 computes it.                   *)
(***************************************************************************)
RECURSIVE BitXor(_, _, _)
BitXor(a, b, n) ==
    IF n = 0 THEN 0
    ELSE (((a % 2) + (b % 2)) % 2) + (2 * BitXor(a \div 2, b \div 2, n - 1))

Xor8(a, b) == BitXor(a, b, 8)

RECURSIVE ShiftLoop(_, _)
ShiftLoop(crc, i) ==
    IF i = 0 THEN crc
    ELSE ShiftLoop(IF crc >= 128 THEN Xor8((crc * 2) % 256, 7) ELSE (crc * 2) % 256,
                   i - 1)

\* the eight shifts of xorShift, tabulated
ShiftTable == [c \in 0..255 |-> ShiftLoop(c, 8)]

xorShift(crc, b) == ShiftTable[Xor8(crc, b)]

RECURSIVE CrcOver(_, _)
CrcOver(crc, bytes) ==
    IF bytes = <<>> THEN crc
    ELSE LET next == xorShift(crc, Head(bytes))
         IN  IF next >= 0 THEN CrcOver(next, Tail(bytes)) ELSE -1

\* a CAN frame: ID is a uint16, DLC a byte, Data an array of 8 bytes
FrameData(f) == [i \in 1..f.DLC |-> f.Data[i]]

calculateCRC8(f) ==
    CrcOver(0, <<(f.ID \div 256) % 256, f.ID % 256, f.DLC>> \o FrameData(f))

(***************************************************************************)
(* Encoding: frameToBytes, stuffByte, createFrameBytes.                    *)
(***************************************************************************)
frameToBytes(f) ==
    <<(f.ID \div 256) % 256, f.ID % 256, f.DLC>> \o FrameData(f) \o <<calculateCRC8(f)>>

\* stuffByte with the tags of the two markers exchanged
stuffByteTagsSwapped(b, output) ==
    CASE b = ArduinoStartMarker -> output \o <<ArduinoEscapeChar, 2>>
      [] b = ArduinoEndMarker   -> output \o <<ArduinoEscapeChar, 1>>
      [] b = ArduinoEscapeChar  -> output \o <<ArduinoEscapeChar, 3>>
      [] OTHER                  -> Append(output, b)

stuffByte(b, output) ==
    CASE b = ArduinoStartMarker -> output \o <<ArduinoEscapeChar, 1>>
      [] b = ArduinoEndMarker   -> output \o <<ArduinoEscapeChar, 2>>
      [] b = ArduinoEscapeChar  -> output \o <<ArduinoEscapeChar, 3>>
      [] OTHER                  -> Append(output, b)

RECURSIVE StuffAll(_, _)
StuffAll(body, output) ==
    IF body = <<>> THEN output
    ELSE StuffAll(Tail(body), stuffByte(Head(body), output))

\* the loop of createFrameBytes over a frame body
StuffBody(body) == Append(StuffAll(body, <<ArduinoStartMarker>>), ArduinoEndMarker)

createFrameBytes(f) == StuffBody(frameToBytes(f))

\* unstuffByte with tag 0x03 taken for the end marker
unstuffByteWrongEscape(b) ==
    CASE b = 1 -> [val |-> ArduinoStartMarker, err |-> FALSE]
      [] b = 2 -> [val |-> ArduinoEndMarker, err |-> FALSE]
      [] b = 3 -> [val |-> ArduinoEndMarker, err |-> FALSE]
      [] OTHER -> [val |-> 0, err |-> TRUE]

\* unstuffByte: the original byte, or an error
unstuffByte(b) ==
    CASE b = 1 -> [val |-> ArduinoStartMarker, err |-> FALSE]
      [] b = 2 -> [val |-> ArduinoEndMarker, err |-> FALSE]
      [] b = 3 -> [val |-> ArduinoEscapeChar, err |-> FALSE]
      [] OTHER -> [val |-> 0, err |-> TRUE]

ackByteToBool(b) == b = ArduinoACK


(***************************************************************************)
(* State.                                                                  *)
(***************************************************************************)
VARIABLES
    \* the serial port: what its next reads return (bytes, GAP, error tokens)
    rx,
    \* the bytes written to the port, in order
    written,
    \* assembleFramesFromSerial: position, inFrame, buffer (a slice: array, len)
    rdPc, inFrame, buf,
    \* the backing arrays of the slices: heap[a] = [cap, bytes]
    heap,
    \* the driver's channels
    readChan, writeChan, ackChan,
    \* processAndBroadcastFrames and writeFramesToSerial: position
    vpPc, wrPc,
    \* isRunning and the driver's context
    isRunning, ctxDone,
    \* the frame broadcaster: subscribed channels, their queues, and the
    \* Broadcast in progress (the frame, the channels still to be offered it)
    subs, queue, bActive, bFrame, bRemaining,
    \* per subscriber channel: the frames dequeued, the number of Broadcasts
    \* begun before it subscribed, and for each offer made to it whether the
    \* queue was full
    got, subAt, offerLog,
    \* the channels whose subscriber has not yet called Unsubscribe, and per
    \* channel the number of times close() was called on it
    held, closes,
    \* SendFrame, per caller: locals, position and result; the caller's context
    sf, callerDone,
    \* history: the input of a round trip, the frames handed to Broadcast, the
    \* buffers enqueued on writeChan, the reader's discards, ack bytes handled
    src, bcastLog, enqLog, rdLog,
    \* the ISO-TP layer: a Message.Send call and the channel of its wait for
    \* the flow control; a Read call, its channel and receiveMultiFrame's
    \* channel; the frames handed to d.SendFrame and the frames published to
    \* the subscribers, in order; a message being encoded and decoded
    tx, fcChan, rd, rdChan, mfChan, evLog, codec,
    \* the ECU handler (K01): its fields, its two loops and its context; its
    \* message broadcaster; a readMessage call; a ScanK01 call; the Cleanup
    \* calls, of the handler and of the serial link; the service registry's
    \* ECU entry; a GenerateK01Key call
    k01, mb, rm, scan, cu, registry, kg,
    \* the operations of a connected handler: a ReadErrors call
    re,
    \* the ISO-TP layer's subscriptions ("fc", "rd", "mf") whose queue the
    \* frame broadcaster's Cleanup has closed
    fq

linkVars == <<rx, written, rdPc, inFrame, buf, heap, readChan, writeChan, ackChan,
              vpPc, wrPc, isRunning, ctxDone>>
bcastVars == <<subs, queue, bActive, bFrame, bRemaining, got, subAt, offerLog,
               held, closes>>
sendVars == <<sf, callerDone>>
histVars == <<src, bcastLog, enqLog, rdLog>>
udsVars == <<tx, fcChan, rd, rdChan, mfChan, evLog, codec>>
ecuVars == <<k01, mb, rm, scan, cu, registry, kg>>
appVars == <<re, fq>>
vars == <<linkVars, bcastVars, sendVars, histVars, udsVars, ecuVars, appVars>>

(***************************************************************************)
(* Slices.  buffer is a Go slice: buffer[:0] keeps the backing array, and  *)
(* append writes into it while the capacity allows.  A nil slice has array *)
(* 0.                                                                      *)
(***************************************************************************)
NilSlice == [arr |-> 0, len |-> 0]

SliceCap(s) == IF s.arr = 0 THEN 0 ELSE heap[s.arr].cap

\* the bytes a holder of slice s reads now
SliceBytes(s) == IF s.arr = 0 THEN <<>> ELSE SubSeq(heap[s.arr].bytes, 1, s.len)

\* the capacity append gives a byte slice that has outgrown cap c
GrowCap(c) == IF c = 0 THEN 8 ELSE 2 * c

\* bytes with position p (at most one past the end) set to b
WriteAt(bytes, p, b) ==
    IF p = Len(bytes) + 1 THEN Append(bytes, b) ELSE [bytes EXCEPT ![p] = b]

\* buffer = append(buffer, b): the heap after it
AppendHeap(s, b) ==
    IF s.len + 1 > SliceCap(s)
    THEN Append(heap, [cap |-> GrowCap(SliceCap(s)), bytes |-> Append(SliceBytes(s), b)])
    ELSE [heap EXCEPT ![s.arr].bytes = WriteAt(@, s.len + 1, b)]

\* buffer = append(buffer, b): the slice after it
AppendSlice(s, b) ==
    IF s.len + 1 > SliceCap(s)
    THEN [arr |-> Len(heap) + 1, len |-> s.len + 1]
    ELSE [arr |-> s.arr, len |-> s.len + 1]

(***************************************************************************)
(* sendResponse: a non-blocking send of one ACK or NACK byte on writeChan. *)
(***************************************************************************)
ChanFull(ch) == Len(ch) >= ChanCap

sendResponseOk == ~ChanFull(writeChan)

sendResponse(response) ==
    IF ChanFull(writeChan)
    THEN UNCHANGED <<writeChan, enqLog>>
    ELSE /\ writeChan' = Append(writeChan, <<response>>)
         /\ enqLog' = Append(enqLog, <<response>>)

\* writeErrorResponse: the NACK, its failure only logged
writeErrorResponse == sendResponse(ArduinoNACK)

(***************************************************************************)
(* assembleFramesFromSerial: one action per branch of its loop body.  The  *)
(* loop tests isRunning and ctx.Done() at its top and then reads: rdPc is  *)
(* "run" once the test has passed, so every branch ends with the next      *)
(* iteration's test.                                                       *)
(***************************************************************************)
\* the test at the top of the loop
LoopTop == IF isRunning = 1 /\ ~ctxDone THEN "run" ELSE "exit"

\* the read returns a byte
ReadsByte == rdPc = "run" /\ rx # <<>> /\ Head(rx) >= 0

\* the test fails after an iteration that passed it: return
ReaderExit ==
    /\ rdPc = "run"
    /\ ~(isRunning = 1 /\ ~ctxDone)
    /\ rdPc' = "exit"
    /\ UNCHANGED <<rx, written, inFrame, buf, heap, readChan, writeChan, ackChan,
                   vpPc, wrPc, isRunning, ctxDone>>
    /\ UNCHANGED <<appVars, ecuVars, udsVars, bcastVars, sendVars, histVars>>

\* the read times out (n = 0): continue
ReadTimeout ==
    /\ rdPc = "run"
    /\ IF rx = <<>> THEN TRUE ELSE Head(rx) = GAP
    /\ rx' = IF rx = <<>> THEN rx ELSE Tail(rx)
    /\ rdPc' = LoopTop
    /\ UNCHANGED <<written, inFrame, buf, heap, readChan, writeChan, ackChan,
                   vpPc, wrPc, isRunning, ctxDone>>
    /\ UNCHANGED <<appVars, ecuVars, udsVars, bcastVars, sendVars, histVars>>

\* the read fails with io.EOF or errorPortHasBeenClosed: cancel and return
ReadErrorClosed ==
    /\ rdPc = "run"
    /\ rx # <<>> /\ Head(rx) = EOFTOKEN
    /\ ctxDone' = TRUE
    /\ rdPc' = "exit"
    /\ UNCHANGED <<rx, written, inFrame, buf, heap, readChan, writeChan, ackChan,
                   vpPc, wrPc, isRunning>>
    /\ UNCHANGED <<appVars, ecuVars, udsVars, bcastVars, sendVars, histVars>>

\* the read fails with another error: isRunning = 0, cancel and return
ReadErrorOther ==
    /\ rdPc = "run"
    /\ rx # <<>> /\ Head(rx) = ERRTOKEN
    /\ isRunning' = 0
    /\ ctxDone' = TRUE
    /\ rdPc' = "exit"
    /\ UNCHANGED <<rx, written, inFrame, buf, heap, readChan, writeChan, ackChan,
                   vpPc, wrPc>>
    /\ UNCHANGED <<appVars, ecuVars, udsVars, bcastVars, sendVars, histVars>>

\* a reader that takes every ACK or NACK byte for an answer, in a frame or not
ReadAckByteAnywhere ==
    /\ ReadsByte
    /\ Head(rx) \in {ArduinoACK, ArduinoNACK}
    /\ rx' = Tail(rx)
    /\ ackChan' = IF ChanFull(ackChan) THEN ackChan
                  ELSE Append(ackChan, ackByteToBool(Head(rx)))
    /\ rdLog' = Append(rdLog, IF ChanFull(ackChan) THEN "ackDropped" ELSE "ackOffered")
    /\ rdPc' = LoopTop
    /\ UNCHANGED <<written, inFrame, buf, heap, readChan, writeChan,
                   vpPc, wrPc, isRunning, ctxDone>>
    /\ UNCHANGED <<appVars, ecuVars, udsVars, bcastVars, sendVars, src, bcastLog, enqLog>>

\* an ACK or NACK byte outside a frame: offered to ackChan, dropped when full
ReadAckByte ==
    /\ ReadsByte
    /\ ~inFrame /\ Head(rx) \in {ArduinoACK, ArduinoNACK}
    /\ rx' = Tail(rx)
    /\ ackChan' = IF ChanFull(ackChan) THEN ackChan
                  ELSE Append(ackChan, ackByteToBool(Head(rx)))
    /\ rdLog' = Append(rdLog, IF ChanFull(ackChan) THEN "ackDropped" ELSE "ackOffered")
    /\ rdPc' = LoopTop
    /\ UNCHANGED <<written, inFrame, buf, heap, readChan, writeChan,
                   vpPc, wrPc, isRunning, ctxDone>>
    /\ UNCHANGED <<appVars, ecuVars, udsVars, bcastVars, sendVars, src, bcastLog, enqLog>>

\* the start marker: a new frame, the buffer reset
ReadStart ==
    /\ ReadsByte
    /\ Head(rx) = ArduinoStartMarker
    /\ rx' = Tail(rx)
    /\ inFrame' = TRUE
    /\ buf' = [buf EXCEPT !.len = 0]
    /\ rdPc' = LoopTop
    /\ UNCHANGED <<written, heap, readChan, writeChan, ackChan,
                   vpPc, wrPc, isRunning, ctxDone>>
    /\ UNCHANGED <<appVars, ecuVars, udsVars, bcastVars, sendVars, histVars>>

\* the end marker inside a frame: the buffer goes to readChan (next step)
ReadEnd ==
    /\ ReadsByte
    /\ Head(rx) = ArduinoEndMarker /\ inFrame
    /\ rx' = Tail(rx)
    /\ inFrame' = FALSE
    /\ rdPc' = "send"
    /\ UNCHANGED <<written, buf, heap, readChan, writeChan, ackChan,
                   vpPc, wrPc, isRunning, ctxDone>>
    /\ UNCHANGED <<appVars, ecuVars, udsVars, bcastVars, sendVars, histVars>>

\* select: d.readChan <- buffer
ReadSend ==
    /\ rdPc = "send"
    /\ ~ChanFull(readChan)
    /\ readChan' = Append(readChan, buf)
    /\ rdPc' = LoopTop
    /\ rdLog' = Append(rdLog, "handed")
    /\ UNCHANGED <<rx, written, inFrame, buf, heap, writeChan, ackChan,
                   vpPc, wrPc, isRunning, ctxDone>>
    /\ UNCHANGED <<appVars, ecuVars, udsVars, bcastVars, sendVars, src, bcastLog, enqLog>>

\* select: <-ctx.Done(): return
ReadSendCancelled ==
    /\ rdPc = "send"
    /\ ctxDone
    /\ rdPc' = "exit"
    /\ UNCHANGED <<rx, written, inFrame, buf, heap, readChan, writeChan, ackChan,
                   vpPc, wrPc, isRunning, ctxDone>>
    /\ UNCHANGED <<appVars, ecuVars, udsVars, bcastVars, sendVars, histVars>>

\* the escape character inside a frame
InEscape == ReadsByte /\ inFrame /\ Head(rx) = ArduinoEscapeChar

\* ... and the second read returns a valid tag: the original byte is appended
ReadEscapeValid ==
    /\ InEscape
    /\ Len(rx) >= 2 /\ rx[2] >= 0 /\ ~unstuffByte(rx[2]).err
    /\ rx' = Tail(Tail(rx))
    /\ heap' = AppendHeap(buf, unstuffByte(rx[2]).val)
    /\ buf' = AppendSlice(buf, unstuffByte(rx[2]).val)
    /\ rdPc' = LoopTop
    /\ UNCHANGED <<written, inFrame, readChan, writeChan, ackChan,
                   vpPc, wrPc, isRunning, ctxDone>>
    /\ UNCHANGED <<appVars, ecuVars, udsVars, bcastVars, sendVars, histVars>>

\* ... and the second read returns another byte: the frame is discarded and a
\* NACK sent
ReadEscapeInvalid ==
    /\ InEscape
    /\ Len(rx) >= 2 /\ rx[2] >= 0 /\ unstuffByte(rx[2]).err
    /\ rx' = Tail(Tail(rx))
    /\ inFrame' = FALSE
    /\ buf' = [buf EXCEPT !.len = 0]
    /\ writeErrorResponse
    /\ rdLog' = Append(rdLog, "discarded")
    /\ rdPc' = LoopTop
    /\ UNCHANGED <<written, heap, readChan, ackChan,
                   vpPc, wrPc, isRunning, ctxDone>>
    /\ UNCHANGED <<appVars, ecuVars, udsVars, bcastVars, sendVars, src, bcastLog>>

\* ... and the second read times out (n = 0) or fails: nothing is appended and
\* the loop continues with the escape forgotten
ReadEscapeTimeout ==
    /\ InEscape
    /\ IF Len(rx) = 1 THEN TRUE ELSE rx[2] < 0
    /\ rx' = IF Len(rx) >= 2 /\ rx[2] = GAP THEN Tail(Tail(rx)) ELSE Tail(rx)
    /\ rdPc' = LoopTop
    /\ UNCHANGED <<written, inFrame, buf, heap, readChan, writeChan, ackChan,
                   vpPc, wrPc, isRunning, ctxDone>>
    /\ UNCHANGED <<appVars, ecuVars, udsVars, bcastVars, sendVars, histVars>>

\* any other byte inside a frame: appended to the buffer
ReadData ==
    /\ ReadsByte
    /\ inFrame
    /\ Head(rx) \notin {ArduinoStartMarker, ArduinoEndMarker, ArduinoEscapeChar}
    /\ rx' = Tail(rx)
    /\ heap' = AppendHeap(buf, Head(rx))
    /\ buf' = AppendSlice(buf, Head(rx))
    /\ rdPc' = LoopTop
    /\ UNCHANGED <<written, inFrame, readChan, writeChan, ackChan,
                   vpPc, wrPc, isRunning, ctxDone>>
    /\ UNCHANGED <<appVars, ecuVars, udsVars, bcastVars, sendVars, histVars>>

\* a byte outside a frame that is no ACK, NACK or start marker: no case
\* of the switch matches it
ReadIgnored ==
    /\ ReadsByte
    /\ ~inFrame
    /\ Head(rx) \notin {ArduinoACK, ArduinoNACK, ArduinoStartMarker}
    /\ rx' = Tail(rx)
    /\ rdPc' = LoopTop
    /\ UNCHANGED <<written, inFrame, buf, heap, readChan, writeChan, ackChan,
                   vpPc, wrPc, isRunning, ctxDone>>
    /\ UNCHANGED <<appVars, ecuVars, udsVars, bcastVars, sendVars, histVars>>

(***************************************************************************)
(* readFrame: the validation of a buffer taken from readChan.  The bytes   *)
(* are those the backing array holds when the buffer is validated.         *)
(***************************************************************************)
PadData(bytes) == [i \in 1..8 |-> IF i <= Len(bytes) THEN bytes[i] ELSE 0]

\* the frame readFrame builds from a buffer that passed the length checks
DecodedFrame(bytes) ==
    [ID |-> (bytes[1] * 256) + bytes[2],
     DLC |-> bytes[3],
     Data |-> PadData(SubSeq(bytes, 4, 3 + bytes[3]))]

\* "nil": return nil, nil; "nack": writeErrorResponse and an error;
\* "ok": the checks passed
readFrameVerdict(s) ==
    LET bytes == SliceBytes(s) IN
    CASE s.arr = 0 -> "nil"
      [] s.arr # 0 /\ Len(bytes) < 4 -> "nack"
      [] s.arr # 0 /\ Len(bytes) >= 4 /\ bytes[3] > MaxDLC -> "nack"
      [] s.arr # 0 /\ Len(bytes) >= 4 /\ bytes[3] <= MaxDLC
           /\ Len(bytes) < 3 + bytes[3] + 1 -> "nack"
      [] OTHER ->
           IF calculateCRC8(DecodedFrame(bytes)) # bytes[3 + bytes[3] + 1]
           THEN "nack" ELSE "ok"


(***************************************************************************)
(* CanFrameBroadcaster (and the identical uds.MessageBroadcaster).         *)
(* Broadcast holds the read lock while it offers the frame to every        *)
(* subscriber, in the map's iteration order; Subscribe takes the write     *)
(* lock.                                                                   *)
(***************************************************************************)
Chans == 1..MaxSubs

\* Subscribe: a new channel of capacity 128, added under the lock
Subscribe(ch) ==
    /\ ~bActive
    /\ ch \notin subs
    /\ ch = Cardinality({c \in Chans : c \in held \/ closes[c] > 0}) + 1
    /\ subs' = subs \cup {ch}
    /\ held' = held \cup {ch}
    /\ subAt' = [subAt EXCEPT ![ch] = Len(bcastLog)]
    /\ UNCHANGED <<queue, bActive, bFrame, bRemaining, got, offerLog, closes>>
    /\ UNCHANGED <<appVars, ecuVars, udsVars, linkVars, sendVars, histVars>>

\* Broadcast(frame), entered: the read lock taken, the subscribers to visit
BroadcastBegin(frame) ==
    /\ bActive' = TRUE
    /\ bFrame' = frame
    /\ bRemaining' = subs
    /\ bcastLog' = Append(bcastLog, frame)

\* an offer that makes room by discarding the oldest queued frame
OfferEvictingOldest(q, frame) ==
    IF ChanFull(q) THEN Append(Tail(q), frame) ELSE Append(q, frame)

\* the select of Broadcast's loop for one channel: sent, or dropped when full
Offer(q, frame) == IF ChanFull(q) THEN q ELSE Append(q, frame)

BroadcastOffer(ch) ==
    /\ bActive
    /\ ch \in bRemaining
    /\ queue' = [queue EXCEPT ![ch] = Offer(@, bFrame)]
    /\ offerLog' = [offerLog EXCEPT ![ch] = Append(@, ChanFull(queue[ch]))]
    /\ bRemaining' = bRemaining \ {ch}
    /\ UNCHANGED <<subs, bActive, bFrame, got, subAt, held, closes>>
    /\ UNCHANGED <<appVars, ecuVars, udsVars, linkVars, sendVars, histVars>>

\* the loop is over: Broadcast returns (to processAndBroadcastFrames when it
\* made the call, which then tests ctx.Done() at the top of its loop)
BroadcastReturn ==
    /\ bActive
    /\ bRemaining = {}
    /\ bActive' = FALSE
    /\ vpPc' = IF vpPc = "bcast" THEN (IF ctxDone THEN "exit" ELSE "recv") ELSE vpPc
    /\ UNCHANGED <<rx, written, rdPc, inFrame, buf, heap, readChan, writeChan, ackChan,
                   wrPc, isRunning, ctxDone>>
    /\ UNCHANGED <<subs, queue, bFrame, bRemaining, got, subAt, offerLog, held, closes>>
    /\ UNCHANGED <<appVars, ecuVars, udsVars, sendVars, histVars>>

\* a caller of the broadcaster calls Broadcast(frame)
BroadcastCall(frame) ==
    /\ ~bActive
    /\ Len(bcastLog) < MaxBroadcasts
    /\ BroadcastBegin(frame)
    /\ UNCHANGED <<subs, queue, got, subAt, offerLog, held, closes>>
    /\ UNCHANGED <<appVars, ecuVars, udsVars, linkVars, sendVars, src, enqLog, rdLog>>

\* a subscriber receives the next frame of its channel
Receive(ch) ==
    /\ ch \in subs
    /\ queue[ch] # <<>>
    /\ got' = [got EXCEPT ![ch] = Append(@, Head(queue[ch]))]
    /\ queue' = [queue EXCEPT ![ch] = Tail(@)]
    /\ UNCHANGED <<subs, bActive, bFrame, bRemaining, subAt, offerLog, held, closes>>
    /\ UNCHANGED <<appVars, ecuVars, udsVars, linkVars, sendVars, histVars>>

\* Unsubscribe(ch): under the lock, the channel is deleted from the map and
\* closed, whether or not it is still in the map
Unsubscribe(ch) ==
    /\ ~bActive
    /\ ch \in held
    /\ held' = held \ {ch}
    /\ subs' = subs \ {ch}
    /\ closes' = [closes EXCEPT ![ch] = @ + 1]
    /\ UNCHANGED <<queue, bActive, bFrame, bRemaining, got, subAt, offerLog>>
    /\ UNCHANGED <<appVars, ecuVars, udsVars, linkVars, sendVars, histVars>>

\* the broadcaster's Cleanup: under the lock, every channel of the map is
\* deleted and closed
BroadcasterCleanup ==
    /\ ~bActive
    /\ subs' = {}
    /\ closes' = [ch \in Chans |-> IF ch \in subs THEN closes[ch] + 1 ELSE closes[ch]]
    /\ UNCHANGED <<queue, bActive, bFrame, bRemaining, got, subAt, offerLog, held>>
    /\ UNCHANGED <<appVars, ecuVars, udsVars, linkVars, sendVars, histVars>>

(***************************************************************************)
(* processAndBroadcastFrames: vpPc is "recv" in readFrame's select, "bcast"*)
(* in Broadcast.                                                           *)
(***************************************************************************)
\* readFrame takes a buffer from readChan and validates it; a frame that
\* passes and whose ACK was enqueued is broadcast
ValidateFrame ==
    /\ vpPc = "recv"
    /\ readChan # <<>>
    /\ readChan' = Tail(readChan)
    /\ LET verdict == readFrameVerdict(Head(readChan))
           frame == DecodedFrame(SliceBytes(Head(readChan)))
       IN  CASE verdict = "nil" ->
                  /\ vpPc' = (IF ctxDone THEN "exit" ELSE "recv")
                  /\ UNCHANGED <<writeChan, enqLog, bcastLog, bActive, bFrame, bRemaining>>
             [] verdict = "nack" ->
                  /\ writeErrorResponse
                  /\ vpPc' = (IF ctxDone THEN "exit" ELSE "recv")
                  /\ UNCHANGED <<bcastLog, bActive, bFrame, bRemaining>>
             [] verdict = "ok" /\ ~sendResponseOk ->
                  /\ sendResponse(ArduinoACK)
                  /\ vpPc' = (IF ctxDone THEN "exit" ELSE "recv")
                  /\ UNCHANGED <<bcastLog, bActive, bFrame, bRemaining>>
             [] verdict = "ok" /\ sendResponseOk ->
                  /\ sendResponse(ArduinoACK)
                  /\ BroadcastBegin(frame)
                  /\ vpPc' = "bcast"
    /\ UNCHANGED <<rx, written, rdPc, inFrame, buf, heap, ackChan, wrPc, isRunning, ctxDone>>
    /\ UNCHANGED <<subs, queue, got, subAt, offerLog, held, closes>>
    /\ UNCHANGED <<appVars, ecuVars, udsVars, sendVars, src, rdLog>>

\* readFrame's select takes <-ctx.Done(): the loop returns
ValidatorCancelled ==
    /\ vpPc = "recv"
    /\ ctxDone
    /\ vpPc' = "exit"
    /\ UNCHANGED <<rx, written, rdPc, inFrame, buf, heap, readChan, writeChan, ackChan,
                   wrPc, isRunning, ctxDone>>
    /\ UNCHANGED <<appVars, ecuVars, udsVars, bcastVars, sendVars, histVars>>

(***************************************************************************)
(* writeFramesToSerial: wrPc is "sel" in the select, after the isRunning   *)
(* test at the top of the loop.                                            *)
(***************************************************************************)
\* a writer that takes the buffer enqueued last
WriteFrameNewestFirst ==
    /\ wrPc = "sel"
    /\ writeChan # <<>>
    /\ writeChan' = SubSeq(writeChan, 1, Len(writeChan) - 1)
    /\ written' = written \o writeChan[Len(writeChan)]
    /\ wrPc' = IF isRunning = 0 THEN "exit" ELSE "sel"
    /\ UNCHANGED <<rx, rdPc, inFrame, buf, heap, readChan, ackChan, vpPc, isRunning, ctxDone>>
    /\ UNCHANGED <<appVars, ecuVars, udsVars, bcastVars, sendVars, histVars>>

\* a buffer is taken from writeChan and written to the port
WriteFrame ==
    /\ wrPc = "sel"
    /\ writeChan # <<>>
    /\ writeChan' = Tail(writeChan)
    /\ written' = written \o Head(writeChan)
    /\ wrPc' = IF isRunning = 0 THEN "exit" ELSE "sel"
    /\ UNCHANGED <<rx, rdPc, inFrame, buf, heap, readChan, ackChan, vpPc, isRunning, ctxDone>>
    /\ UNCHANGED <<appVars, ecuVars, udsVars, bcastVars, sendVars, histVars>>

\* ... and the write fails, some of the bytes perhaps written: isRunning = 0,
\* cancel and return
WriteError ==
    /\ wrPc = "sel"
    /\ writeChan # <<>>
    /\ writeChan' = Tail(writeChan)
    /\ \E n \in 0..(Len(Head(writeChan)) - 1) :
          written' = written \o SubSeq(Head(writeChan), 1, n)
    /\ isRunning' = 0
    /\ ctxDone' = TRUE
    /\ wrPc' = "exit"
    /\ UNCHANGED <<rx, rdPc, inFrame, buf, heap, readChan, ackChan, vpPc>>
    /\ UNCHANGED <<appVars, ecuVars, udsVars, bcastVars, sendVars, histVars>>

\* the select takes <-ctx.Done(): return
WriterCancelled ==
    /\ wrPc = "sel"
    /\ ctxDone
    /\ wrPc' = "exit"
    /\ UNCHANGED <<rx, written, rdPc, inFrame, buf, heap, readChan, writeChan, ackChan,
                   vpPc, isRunning, ctxDone>>
    /\ UNCHANGED <<appVars, ecuVars, udsVars, bcastVars, sendVars, histVars>>


(***************************************************************************)
(* SendFrame, per caller c.  sf[c] holds the call's locals (retries,       *)
(* retryDelay, frameBytes), its position pc and its result, and as history *)
(* the delays it slept and the number of times it enqueued the frame.      *)
(***************************************************************************)
Callers == 1..NumCallers

IdleCall == [pc |-> "idle", retries |-> 0, retryDelay |-> 0, frameBytes |-> <<>>,
             result |-> "none", slept |-> <<>>, sends |-> 0]

Return(c, res) == [sf EXCEPT ![c].pc = "done", ![c].result = res]

\* the call, up to the first test of the loop condition
SendCall(c, frame) ==
    /\ sf[c].pc = "idle"
    /\ sf' = IF isRunning = 0
             THEN Return(c, "NotRunning")
             ELSE [sf EXCEPT ![c].pc = "enqueue",
                             ![c].retries = 0,
                             ![c].retryDelay = ArduinoRetryDelay,
                             ![c].frameBytes = createFrameBytes(frame)]
    /\ UNCHANGED <<appVars, ecuVars, udsVars, linkVars, bcastVars, callerDone, histVars>>

\* select: d.writeChan <- frameBytes
SendEnqueue(c) ==
    /\ sf[c].pc = "enqueue"
    /\ ~ChanFull(writeChan)
    /\ writeChan' = Append(writeChan, sf[c].frameBytes)
    /\ enqLog' = Append(enqLog, sf[c].frameBytes)
    /\ sf' = [sf EXCEPT ![c].pc = "waitAck", ![c].sends = @ + 1]
    /\ UNCHANGED <<rx, written, rdPc, inFrame, buf, heap, readChan, ackChan,
                   vpPc, wrPc, isRunning, ctxDone>>
    /\ UNCHANGED <<appVars, ecuVars, udsVars, bcastVars, callerDone, src, bcastLog, rdLog>>

\* select: <-ctx.Done() while enqueueing
SendEnqueueCancelled(c) ==
    /\ sf[c].pc = "enqueue"
    /\ callerDone[c]
    /\ sf' = Return(c, "Cancelled")
    /\ UNCHANGED <<appVars, ecuVars, udsVars, linkVars, bcastVars, callerDone, histVars>>

\* select: ackReceived = <-d.ackChan; an ACK returns nil, a NACK backs off
SendAck(c) ==
    /\ sf[c].pc = "waitAck"
    /\ ackChan # <<>>
    /\ ackChan' = Tail(ackChan)
    /\ sf' = IF Head(ackChan) THEN Return(c, "Ok") ELSE [sf EXCEPT ![c].pc = "backoff"]
    /\ UNCHANGED <<rx, written, rdPc, inFrame, buf, heap, readChan, writeChan,
                   vpPc, wrPc, isRunning, ctxDone>>
    /\ UNCHANGED <<appVars, ecuVars, udsVars, bcastVars, callerDone, histVars>>

\* select: <-time.After(ArduinoACKTimeout), no ACK or NACK having arrived
SendAckTimeout(c) ==
    /\ sf[c].pc = "waitAck"
    /\ ackChan = <<>>
    /\ sf' = [sf EXCEPT ![c].pc = "backoff"]
    /\ UNCHANGED <<appVars, ecuVars, udsVars, linkVars, bcastVars, callerDone, histVars>>

\* select: <-ctx.Done() while waiting for the ACK
SendAckCancelled(c) ==
    /\ sf[c].pc = "waitAck"
    /\ callerDone[c]
    /\ sf' = Return(c, "Cancelled")
    /\ UNCHANGED <<appVars, ecuVars, udsVars, linkVars, bcastVars, callerDone, histVars>>

\* a backoff that sleeps and counts, but leaves the delay as it was
SendBackoffConstantDelay(c) ==
    /\ sf[c].pc = "backoff"
    /\ sf' = [sf EXCEPT ![c].slept = Append(@, sf[c].retryDelay),
                        ![c].retries = @ + 1,
                        ![c].pc = IF sf[c].retries + 1 < ArduinoMaxRetries
                                  THEN "enqueue" ELSE "done",
                        ![c].result = IF sf[c].retries + 1 < ArduinoMaxRetries
                                      THEN @ ELSE "NoAck"]
    /\ UNCHANGED <<appVars, ecuVars, udsVars, linkVars, bcastVars, callerDone, histVars>>

\* time.Sleep(retryDelay), the delay multiplied, and the loop's next test;
\* after the loop the call fails for want of an ACK
SendBackoff(c) ==
    /\ sf[c].pc = "backoff"
    /\ sf' = [sf EXCEPT ![c].slept = Append(@, sf[c].retryDelay),
                        ![c].retryDelay = @ * ArduinoExponentialBackoffFactor,
                        ![c].retries = @ + 1,
                        ![c].pc = IF sf[c].retries + 1 < ArduinoMaxRetries
                                  THEN "enqueue" ELSE "done",
                        ![c].result = IF sf[c].retries + 1 < ArduinoMaxRetries
                                      THEN @ ELSE "NoAck"]
    /\ UNCHANGED <<appVars, ecuVars, udsVars, linkVars, bcastVars, callerDone, histVars>>

\* the caller's context is cancelled
CallerCancel(c) ==
    /\ ~callerDone[c]
    /\ sf[c].pc \notin {"idle", "done"}
    /\ callerDone' = [callerDone EXCEPT ![c] = TRUE]
    /\ UNCHANGED <<appVars, ecuVars, udsVars, linkVars, bcastVars, sf, histVars>>

(***************************************************************************)
(* The device: it answers a frame written to the port with an ACK or a     *)
(* NACK byte.                                                              *)
(***************************************************************************)
FramesWritten == Cardinality({i \in 1..Len(written) : written[i] = ArduinoEndMarker})

AcksInFlight(seq) == Cardinality({i \in 1..Len(seq) : seq[i] \in {ArduinoACK, ArduinoNACK}})

AcksHandled ==
    Cardinality({i \in 1..Len(rdLog) : rdLog[i] \in {"ackOffered", "ackDropped"}})

\* the frames the device has begun to send
StartsIn(seq) == Cardinality({i \in 1..Len(seq) : seq[i] = ArduinoStartMarker})

\* the answers and frames the port has yet to deliver
InFlight(seq) == AcksInFlight(seq) + StartsIn(seq)

FramesHanded == Cardinality({i \in 1..Len(rdLog) : rdLog[i] = "handed"})

InboundCount ==
    StartsIn(rx) + FramesHanded + (IF inFrame THEN 1 ELSE 0)
        + (IF rdPc = "send" THEN 1 ELSE 0)

\* the device sends a link frame of its own
DeviceFrame(wire) ==
    /\ InboundCount < MaxInbound
    /\ InFlight(rx) < MaxInFlight
    /\ rx' = rx \o wire
    /\ UNCHANGED <<written, rdPc, inFrame, buf, heap, readChan, writeChan, ackChan,
                   vpPc, wrPc, isRunning, ctxDone>>
    /\ UNCHANGED <<appVars, ecuVars, udsVars, bcastVars, sendVars, histVars>>

DeviceAnswer(b) ==
    /\ AcksHandled + AcksInFlight(rx) < FramesWritten
    /\ InFlight(rx) < MaxInFlight
    /\ rx' = Append(rx, b)
    /\ UNCHANGED <<written, rdPc, inFrame, buf, heap, readChan, writeChan, ackChan,
                   vpPc, wrPc, isRunning, ctxDone>>
    /\ UNCHANGED <<appVars, ecuVars, udsVars, bcastVars, sendVars, histVars>>


(***************************************************************************)
(* Inputs.                                                                 *)
(***************************************************************************)
Frame(id, dlc, data) == [ID |-> id, DLC |-> dlc, Data |-> PadData(data)]

NoFrame == Frame(0, 0, <<>>)

\* 0x00, 0x01, ACK, NACK, ESCAPE, START, END
ByteVals == {0, 1, ArduinoACK, ArduinoNACK, ArduinoEscapeChar,
             ArduinoStartMarker, ArduinoEndMarker}

\* 0x0000, 0x0123, 0x7E7F, 0x1B06, 0xFFFF
TestIDs == {0, 291, 32383, 6918, 65535}

\* every short frame over the test bytes, and some long ones: the frames of
\* the link scenarios, a full frame of special bytes, and a frame whose Data
\* holds bytes past its DLC
TestFrames ==
    {Frame(id, Len(d), d) : id \in TestIDs, d \in SeqsUpTo(ByteVals, MaxDataLen)}
    \cup {Frame(291, 3, <<1, 2, 3>>),
          Frame(32383, 3, <<126, 127, 27>>),
          Frame(32383, 8, <<126, 127, 27, 6, 21, 1, 2, 3>>),
          Frame(2016, 2, <<2, 62, 170, 126>>)}

TestBodies == SeqsUpTo(ByteVals, MaxBodyLen)

NoSrc == [kind |-> "none", frame |-> NoFrame, body |-> <<>>, wire |-> <<>>]

(***************************************************************************)
(* UDS messages and ISO-TP framing (package uds).                          *)
(***************************************************************************)
PCIFrameTypeSF == 0
PCIFrameTypeFF == 1
PCIFrameTypeCF == 2
PCIFrameTypeFC == 3
TesterID == 2016
ECUID == 2024
NegativeResponseByte == 127
PositiveResponseServiceIdOffset == 64
ServiceTesterPresent == 62

\* a nil *byte or *bool
Nil == -1

RECURSIVE BitAnd(_, _, _)
BitAnd(a, b, n) ==
    IF n = 0 THEN 0
    ELSE ((a % 2) * (b % 2)) + (2 * BitAnd(a \div 2, b \div 2, n - 1))

RECURSIVE BitOr(_, _, _)
BitOr(a, b, n) ==
    IF n = 0 THEN 0
    ELSE (IF (a % 2) + (b % 2) > 0 THEN 1 ELSE 0) + (2 * BitOr(a \div 2, b \div 2, n - 1))

\* & and | on bytes and on uint16, << 4 and >> 4 on a byte
And8(a, b) == BitAnd(a, b, 8)
Or8(a, b) == BitOr(a, b, 8)
And16(a, b) == BitAnd(a, b, 16)
Or16(a, b) == BitOr(a, b, 16)
Shl4(a) == (a * 16) % 256
Shr4(a) == a \div 16

\* the Message struct; IsPositive is Nil, 0 (false) or 1 (true)
Message(senderID, serviceID, subfunction, nrc, data, isResponse, isPositive) ==
    [SenderID |-> senderID, ServiceID |-> serviceID, Subfunction |-> subfunction,
     NRC |-> nrc, Data |-> data, IsResponse |-> isResponse, IsPositive |-> isPositive]

\* a request as callers build it: &Message{SenderID, ServiceID, Subfunction, Data}
Request(senderID, serviceID, subfunction, data) ==
    Message(senderID, serviceID, subfunction, Nil, data, FALSE, Nil)

NilMessage == Message(0, 0, Nil, Nil, <<>>, FALSE, Nil)

\* the message SendTesterPresent sends
TesterPresentMessage == Request(TesterID, ServiceTesterPresent, Nil, <<>>)

\* an encoding that puts the NRC before the service ID in a negative response
ToRawDataNRCFirst(m) ==
    IF ~m.IsResponse
    THEN <<m.ServiceID>>
         \o (IF m.Subfunction # Nil THEN <<m.Subfunction>> ELSE <<>>)
         \o m.Data
    ELSE IF m.IsPositive = 1
    THEN <<(m.ServiceID + PositiveResponseServiceIdOffset) % 256>> \o m.Data
    ELSE <<NegativeResponseByte>>
         \o (IF m.NRC # Nil THEN <<m.NRC>> ELSE <<>>)
         \o <<m.ServiceID>>
         \o m.Data

\* Message.ToRawData
ToRawData(m) ==
    IF ~m.IsResponse
    THEN <<m.ServiceID>>
         \o (IF m.Subfunction # Nil THEN <<m.Subfunction>> ELSE <<>>)
         \o m.Data
    ELSE IF m.IsPositive = 1
    THEN <<(m.ServiceID + PositiveResponseServiceIdOffset) % 256>> \o m.Data
    ELSE <<NegativeResponseByte, m.ServiceID>>
         \o (IF m.NRC # Nil THEN <<m.NRC>> ELSE <<>>)
         \o m.Data

\* RawDataToMessage for a non-empty rawData that is long enough for the
\* branch taken; data = rawData[1:] keeps the byte that subfunction points to
RawDataToMessage(senderID, rawData, isResponse) ==
    IF isResponse
    THEN IF rawData[1] # NegativeResponseByte
         THEN Message(senderID,
                      (rawData[1] + 256 - PositiveResponseServiceIdOffset) % 256,
                      IF Len(rawData) > 1 THEN rawData[2] ELSE Nil,
                      Nil, Tail(rawData), TRUE, 1)
         ELSE Message(senderID, rawData[2], Nil, rawData[3],
                      SubSeq(rawData, 4, Len(rawData)), TRUE, 0)
    ELSE Message(senderID, rawData[1],
                 IF Len(rawData) > 1 THEN rawData[2] ELSE Nil,
                 Nil, Tail(rawData), FALSE, 0)

\* (b & 0xF0) >> 4, tabulated
UpperNibble == [b \in 0..255 |-> Shr4(And8(b, 240))]

\* the upper nibble of a frame's PCI byte
pciFrameType(frame) == UpperNibble[frame.Data[1]]

\* a single frame whose PCI counts itself
SingleFrameCountingPCI(id, dataLength, data) ==
    [ID |-> id,
     DLC |-> ((dataLength % 256) + 1) % 256,
     Data |-> PadData(<<Or8(PCIFrameTypeSF, And16(dataLength + 1, 15))>> \o data)]

\* a single frame without a PCI byte
SingleFrameNoPCI(id, dataLength, data) ==
    [ID |-> id, DLC |-> dataLength % 256, Data |-> PadData(data)]

\* the frame sendSingleFrame hands to the driver
SingleFrame(id, dataLength, data) ==
    [ID |-> id,
     DLC |-> ((dataLength % 256) + 1) % 256,
     Data |-> PadData(<<Or8(PCIFrameTypeSF, And16(dataLength, 15))>> \o data)]

\* the frame sendFirstFrame hands to the driver: PCIFrameTypeFF is or-ed into
\* the PCI byte as it is
FirstFrame(id, dataLength, data) ==
    [ID |-> id,
     DLC |-> 8,
     Data |-> PadData(<<Or8(PCIFrameTypeFF, And16(dataLength \div 256, 15)),
                        And16(dataLength, 255)>>
                      \o SubSeq(data, 1, 6))]

\* the number of bytes the consecutive frame built at bytesSent carries
bytesToSend(totalBytes, bytesSent) ==
    IF totalBytes - bytesSent > 7 THEN 7 ELSE totalBytes - bytesSent

\* a consecutive frame that always declares a full frame
ConsecutiveFrameFullDLC(id, data, bytesSent, frameIndex) ==
    [ID |-> id,
     DLC |-> 8,
     Data |-> PadData(<<Or8(Shl4(PCIFrameTypeCF), And8(frameIndex, 15))>>
                      \o SubSeq(data, bytesSent + 1,
                                bytesSent + bytesToSend(Len(data), bytesSent)))]

\* the frame sendConsecutiveFrames builds at bytesSent with frameIndex
ConsecutiveFrame(id, data, bytesSent, frameIndex) ==
    [ID |-> id,
     DLC |-> 1 + bytesToSend(Len(data), bytesSent),
     Data |-> PadData(<<Or8(Shl4(PCIFrameTypeCF), And8(frameIndex, 15))>>
                      \o SubSeq(data, bytesSent + 1,
                                bytesSent + bytesToSend(Len(data), bytesSent)))]

\* the frame sendFlowControlFrame hands to the driver
FlowControlFrame ==
    [ID |-> TesterID, DLC |-> 3, Data |-> PadData(<<Or8(Shl4(PCIFrameTypeFC), 0), 0, 0>>)]

\* receiveSingleFrame: the bytes the length nibble announces
receiveSingleFrame(frame) ==
    SubSeq(frame.Data, 2, And8(frame.Data[1], 15) + 1)

\* copy(data[at:], bytes)
CopyAt(data, at, bytes) ==
    [i \in 1..Len(data) |->
        IF i > at /\ i <= at + Len(bytes) THEN bytes[i - at] ELSE data[i]]

\* a Message.Send call and a Read call before they are made
IdleSend ==
    [pc |-> "idle", m |-> NilMessage, raw |-> <<>>, separationTime |-> 0,
     bytesSent |-> 0, frameIndex |-> 0, result |-> "none"]

IdleRead ==
    [pc |-> "idle", first |-> NoFrame, dataLength |-> 0, data |-> <<>>,
     bytesReceived |-> 0, frameIndex |-> 0, result |-> "none"]

IdleCodec == [pc |-> "idle", m |-> NilMessage, raw |-> <<>>, out |-> NilMessage]

\* d.SendFrame(frame) called by the ISO-TP layer: by is "send" for Message.Send
\* and "fc" for sendFlowControlFrame
Emit(by, frame) == evLog' = Append(evLog, [kind |-> by, frame |-> frame])

\* the subscriptions of the ISO-TP layer that are open
FcSubscribed == tx.pc = "fc"
ReadSubscribed == rd.pc \in {"wait", "fcSend", "multi"}
MultiSubscribed == rd.pc \in {"fcSend", "multi"}
HeldQueues ==
    {q \in {"fc", "rd", "mf"} :
        \/ q = "fc" /\ FcSubscribed
        \/ q = "rd" /\ ReadSubscribed
        \/ q = "mf" /\ MultiSubscribed}

\* the deferred Unsubscribe calls of a return: Unsubscribe closes the queue
\* without a look at the map, and close of a queue that Cleanup closed panics
DeferUnsubscribe(queues, result) ==
    IF queues \cap fq # {} THEN "panic" ELSE result

\* the link publishes a validated frame: Broadcast offers it to every
\* subscription in the broadcaster's map, which Cleanup has emptied of the
\* queues it closed
Publish(frame) ==
    /\ evLog' = Append(evLog, [kind |-> "pub", frame |-> frame])
    /\ fcChan' = IF FcSubscribed /\ "fc" \notin fq THEN Offer(fcChan, frame) ELSE fcChan
    /\ rdChan' = IF ReadSubscribed /\ "rd" \notin fq THEN Offer(rdChan, frame) ELSE rdChan
    /\ mfChan' = IF MultiSubscribed /\ "mf" \notin fq THEN Offer(mfChan, frame) ELSE mfChan

\* the number of frames published so far
Published == Cardinality({i \in 1..Len(evLog) : evLog[i].kind = "pub"})

\* the peer's frame arrives and is published
PeerFrame(frame) ==
    /\ Publish(frame)
    /\ UNCHANGED <<tx, rd, codec>>
    /\ UNCHANGED <<appVars, linkVars, bcastVars, sendVars, histVars, ecuVars>>

(***************************************************************************)
(* Message.Send: tx.pc is "idle", "ff" (the first frame sent, not yet      *)
(* subscribed), "fc" (in waitForFlowControlFrame's select), "cf" (in       *)
(* sendConsecutiveFrames' loop), "done".                                   *)
(***************************************************************************)
\* Send up to the return of its first d.SendFrame, which succeeds or not
MessageSend(m, ok) ==
    /\ tx.pc = "idle"
    /\ LET rawData == ToRawData(m)
           dataLength == Len(rawData) % 65536
       IN  IF dataLength <= 7
           THEN /\ Emit("send", SingleFrame(m.SenderID, dataLength, rawData))
                /\ tx' = [tx EXCEPT !.pc = "done", !.m = m, !.raw = rawData,
                                    !.result = IF ok THEN "nil" ELSE "sendError"]
           ELSE /\ Emit("send", FirstFrame(m.SenderID, dataLength, rawData))
                /\ tx' = [tx EXCEPT !.pc = IF ok THEN "ff" ELSE "done",
                                    !.m = m, !.raw = rawData,
                                    !.result = IF ok THEN "none" ELSE "sendError"]
    /\ UNCHANGED <<fcChan, rd, rdChan, mfChan, codec>>
    /\ UNCHANGED <<appVars, linkVars, bcastVars, sendVars, histVars, ecuVars>>

\* waitForFlowControlFrame subscribes
WaitFCSubscribe ==
    /\ tx.pc = "ff"
    /\ tx' = [tx EXCEPT !.pc = "fc"]
    /\ fcChan' = <<>>
    /\ UNCHANGED <<rd, rdChan, mfChan, evLog, codec>>
    /\ fq' = fq \ {"fc"}
    /\ UNCHANGED <<re, linkVars, bcastVars, sendVars, histVars, ecuVars>>

\* a wait that takes whatever frame comes first for the flow control
WaitFCReceiveAnyFrame ==
    /\ tx.pc = "fc"
    /\ fcChan # <<>>
    /\ tx' = IF "fc" \in fq
             THEN [tx EXCEPT !.pc = "done", !.result = "panic"]
             ELSE [tx EXCEPT !.pc = "cf",
                             !.separationTime = Head(fcChan).Data[3],
                             !.bytesSent = 6, !.frameIndex = 1]
    /\ fcChan' = <<>>
    /\ UNCHANGED <<rd, rdChan, mfChan, evLog, codec>>
    /\ UNCHANGED <<appVars, linkVars, bcastVars, sendVars, histVars, ecuVars>>

\* the select takes a frame: one that is not a flow control is skipped; a
\* flow control ends the wait, the deferred Unsubscribe runs, and
\* sendConsecutiveFrames is entered after the separation-time sleep
WaitFCReceive ==
    /\ tx.pc = "fc"
    /\ fcChan # <<>>
    /\ IF pciFrameType(Head(fcChan)) # PCIFrameTypeFC
       THEN /\ fcChan' = Tail(fcChan)
            /\ tx' = tx
       ELSE /\ tx' = IF "fc" \in fq
                     THEN [tx EXCEPT !.pc = "done", !.result = "panic"]
                     ELSE [tx EXCEPT !.pc = "cf",
                                     !.separationTime = Head(fcChan).Data[3],
                                     !.bytesSent = 6, !.frameIndex = 1]
            /\ fcChan' = <<>>
    /\ UNCHANGED <<rd, rdChan, mfChan, evLog, codec>>
    /\ UNCHANGED <<appVars, linkVars, bcastVars, sendVars, histVars, ecuVars>>

\* the select takes <-readCtx.Done(): 10 s have passed
WaitFCTimeout ==
    /\ tx.pc = "fc"
    /\ tx' = [tx EXCEPT !.pc = "done", !.result = DeferUnsubscribe({"fc"}, "errorFCFrameTimeout")]
    /\ fcChan' = <<>>
    /\ UNCHANGED <<rd, rdChan, mfChan, evLog, codec>>
    /\ UNCHANGED <<appVars, linkVars, bcastVars, sendVars, histVars, ecuVars>>

\* one round of sendConsecutiveFrames' loop
SendConsecutive(ok) ==
    /\ tx.pc = "cf"
    /\ LET id == tx.m.SenderID
           sent == tx.bytesSent + bytesToSend(Len(tx.raw), tx.bytesSent)
       IN  /\ Emit("send", ConsecutiveFrame(id, tx.raw, tx.bytesSent, tx.frameIndex))
           /\ tx' = IF ~ok
                    THEN [tx EXCEPT !.pc = "done", !.result = "sendError"]
                    ELSE [tx EXCEPT !.bytesSent = sent,
                                    !.frameIndex = (tx.frameIndex + 1) % 16,
                                    !.pc = IF sent < Len(tx.raw) THEN "cf" ELSE "done",
                                    !.result = IF sent < Len(tx.raw) THEN "none" ELSE "nil"]
    /\ UNCHANGED <<fcChan, rd, rdChan, mfChan, codec>>
    /\ UNCHANGED <<appVars, linkVars, bcastVars, sendVars, histVars, ecuVars>>

(***************************************************************************)
(* Read: rd.pc is "idle", "wait" (in Read's select), "fcSend" (in          *)
(* receiveMultiFrame, about to send the flow control), "multi" (in         *)
(* receiveMultiFrame's select), "done".                                    *)
(***************************************************************************)
\* Read subscribes
ReadCall ==
    /\ rd.pc = "idle"
    /\ rd' = [rd EXCEPT !.pc = "wait"]
    /\ rdChan' = <<>>
    /\ UNCHANGED <<tx, fcChan, mfChan, evLog, codec>>
    /\ fq' = fq \ {"rd"}
    /\ UNCHANGED <<re, linkVars, bcastVars, sendVars, histVars, ecuVars>>

\* Read's select takes a frame: a single frame is returned, a first frame
\* enters receiveMultiFrame (which subscribes and sets up its buffer), any
\* other frame is skipped
ReadReceive ==
    /\ rd.pc = "wait"
    /\ rdChan # <<>>
    /\ LET frame == Head(rdChan)
           dataLength == Or16((And8(frame.Data[1], 15) * 256) % 65536, frame.Data[2])
       IN  CASE pciFrameType(frame) = PCIFrameTypeSF ->
                  /\ rd' = IF And8(frame.Data[1], 15) > 7
                           THEN [rd EXCEPT !.pc = "done", !.first = frame,
                                           !.result = "panic"]
                           ELSE [rd EXCEPT !.pc = "done", !.first = frame,
                                           !.data = receiveSingleFrame(frame),
                                           !.result = DeferUnsubscribe({"rd"}, "nil")]
                  /\ rdChan' = <<>>
                  /\ mfChan' = mfChan
                  /\ fq' = fq
             [] pciFrameType(frame) = PCIFrameTypeFF ->
                  /\ rd' = [rd EXCEPT !.pc = "fcSend", !.first = frame,
                                      !.dataLength = dataLength,
                                      !.data = CopyAt([i \in 1..dataLength |-> 0], 0,
                                                      SubSeq(frame.Data, 3,
                                                             IF dataLength < 6
                                                             THEN 2 + dataLength ELSE 8)),
                                      !.bytesReceived = 6,
                                      !.frameIndex = 1]
                  /\ rdChan' = Tail(rdChan)
                  /\ mfChan' = <<>>
                  /\ fq' = fq \ {"mf"}
             [] OTHER ->
                  /\ rd' = rd
                  /\ rdChan' = Tail(rdChan)
                  /\ mfChan' = mfChan
                  /\ fq' = fq
    /\ UNCHANGED <<tx, fcChan, evLog, codec>>
    /\ UNCHANGED <<re, linkVars, bcastVars, sendVars, histVars, ecuVars>>

\* a receiveMultiFrame that goes on without sending the flow control
SendFlowControlSkipped(ok) ==
    /\ rd.pc = "fcSend"
    /\ rd' = [rd EXCEPT !.pc = "multi"]
    /\ UNCHANGED <<rdChan, mfChan, evLog>>
    /\ UNCHANGED <<tx, fcChan, codec>>
    /\ UNCHANGED <<appVars, linkVars, bcastVars, sendVars, histVars, ecuVars>>

\* receiveMultiFrame calls sendFlowControlFrame, whose d.SendFrame succeeds
\* or not; a message that fits the first frame needs no consecutive frame
SendFlowControl(ok) ==
    /\ rd.pc = "fcSend"
    /\ Emit("fc", FlowControlFrame)
    /\ IF ~ok
       THEN /\ rd' = [rd EXCEPT !.pc = "done", !.result = DeferUnsubscribe({"rd", "mf"}, "fcSendError")]
            /\ rdChan' = <<>> /\ mfChan' = <<>>
       ELSE IF rd.bytesReceived < rd.dataLength
       THEN /\ rd' = [rd EXCEPT !.pc = "multi"]
            /\ UNCHANGED <<rdChan, mfChan>>
       ELSE /\ rd' = [rd EXCEPT !.pc = "done",
                                !.result = DeferUnsubscribe({"rd", "mf"}, "nil")]
            /\ rdChan' = <<>> /\ mfChan' = <<>>
    /\ UNCHANGED <<tx, fcChan, codec>>
    /\ UNCHANGED <<appVars, linkVars, bcastVars, sendVars, histVars, ecuVars>>

\* a reader that takes every consecutive frame as the next one
MultiReceiveAnyIndex ==
    /\ rd.pc = "multi"
    /\ mfChan # <<>>
    /\ LET frame == Head(mfChan)
           bytesToCopy == IF rd.dataLength - rd.bytesReceived > 7 THEN 7
                          ELSE rd.dataLength - rd.bytesReceived
           received == rd.bytesReceived + bytesToCopy
       IN  IF frame.ID # rd.first.ID \/ pciFrameType(frame) # PCIFrameTypeCF
           THEN /\ rd' = rd
                /\ mfChan' = Tail(mfChan)
                /\ rdChan' = rdChan
           ELSE /\ rd' = [rd EXCEPT
                            !.data = CopyAt(rd.data, rd.bytesReceived,
                                            SubSeq(frame.Data, 2, bytesToCopy + 1)),
                            !.bytesReceived = received,
                            !.frameIndex = (rd.frameIndex + 1) % 16,
                            !.pc = IF received < rd.dataLength THEN "multi" ELSE "done",
                            !.result = IF received < rd.dataLength THEN "none"
                                       ELSE DeferUnsubscribe({"rd", "mf"}, "nil")]
                /\ mfChan' = IF received < rd.dataLength THEN Tail(mfChan) ELSE <<>>
                /\ rdChan' = IF received < rd.dataLength THEN rdChan ELSE <<>>
    /\ UNCHANGED <<tx, fcChan, evLog, codec>>
    /\ UNCHANGED <<appVars, linkVars, bcastVars, sendVars, histVars, ecuVars>>

\* receiveMultiFrame's select takes a frame
MultiReceive ==
    /\ rd.pc = "multi"
    /\ mfChan # <<>>
    /\ LET frame == Head(mfChan)
           bytesToCopy == IF rd.dataLength - rd.bytesReceived > 7 THEN 7
                          ELSE rd.dataLength - rd.bytesReceived
           received == rd.bytesReceived + bytesToCopy
       IN  IF frame.ID # rd.first.ID \/ pciFrameType(frame) # PCIFrameTypeCF
           THEN /\ rd' = rd
                /\ mfChan' = Tail(mfChan)
                /\ rdChan' = rdChan
           ELSE IF And8(frame.Data[1], 15) # rd.frameIndex
           THEN /\ rd' = [rd EXCEPT !.pc = "done",
                                !.result = DeferUnsubscribe({"rd", "mf"},
                                                            "errorUnexpectedFrameIndex")]
                /\ mfChan' = <<>> /\ rdChan' = <<>>
           ELSE /\ rd' = [rd EXCEPT
                            !.data = CopyAt(rd.data, rd.bytesReceived,
                                            SubSeq(frame.Data, 2, bytesToCopy + 1)),
                            !.bytesReceived = received,
                            !.frameIndex = (rd.frameIndex + 1) % 16,
                            !.pc = IF received < rd.dataLength THEN "multi" ELSE "done",
                            !.result = IF received < rd.dataLength THEN "none"
                                       ELSE DeferUnsubscribe({"rd", "mf"}, "nil")]
                /\ mfChan' = IF received < rd.dataLength THEN Tail(mfChan) ELSE <<>>
                /\ rdChan' = IF received < rd.dataLength THEN rdChan ELSE <<>>
    /\ UNCHANGED <<tx, fcChan, evLog, codec>>
    /\ UNCHANGED <<appVars, linkVars, bcastVars, sendVars, histVars, ecuVars>>

\* receiveMultiFrame's select takes <-readCtx.Done(): 10 s without a frame
MultiTimeout ==
    /\ rd.pc = "multi"
    /\ rd' = [rd EXCEPT !.pc = "done", !.result = DeferUnsubscribe({"rd", "mf"},
                                                   "errorMultiFrameReadTimeout")]
    /\ mfChan' = <<>> /\ rdChan' = <<>>
    /\ UNCHANGED <<tx, fcChan, evLog, codec>>
    /\ UNCHANGED <<appVars, linkVars, bcastVars, sendVars, histVars, ecuVars>>

(***************************************************************************)
(* The receives of a queue that the frame broadcaster's Cleanup closed.    *)
(* A closed queue hands out the frames it still holds and then, without    *)
(* blocking, the zero value: a nil *canbus.CanFrame.  None of the three    *)
(* receives takes the second value of the receive, and each reads a field  *)
(* of the frame at once.                                                   *)
(***************************************************************************)
\* waitForFlowControlFrame's select takes the nil frame: frame.Data[0]
WaitFCReceiveClosed ==
    /\ tx.pc = "fc"
    /\ "fc" \in fq
    /\ fcChan = <<>>
    /\ tx' = [tx EXCEPT !.pc = "done", !.result = "panic"]
    /\ UNCHANGED <<fcChan, rd, rdChan, mfChan, evLog, codec>>
    /\ UNCHANGED <<appVars, linkVars, bcastVars, sendVars, histVars, ecuVars>>

\* Read's select takes the nil frame: frame.Data[0]
ReadReceiveClosed ==
    /\ rd.pc = "wait"
    /\ "rd" \in fq
    /\ rdChan = <<>>
    /\ rd' = [rd EXCEPT !.pc = "done", !.result = "panic"]
    /\ UNCHANGED <<tx, fcChan, rdChan, mfChan, evLog, codec>>
    /\ UNCHANGED <<appVars, linkVars, bcastVars, sendVars, histVars, ecuVars>>

\* receiveMultiFrame's select takes the nil frame: frame.ID
MultiReceiveClosed ==
    /\ rd.pc = "multi"
    /\ "mf" \in fq
    /\ mfChan = <<>>
    /\ rd' = [rd EXCEPT !.pc = "done", !.result = "panic"]
    /\ rdChan' = <<>>
    /\ UNCHANGED <<tx, fcChan, mfChan, evLog, codec>>
    /\ UNCHANGED <<appVars, linkVars, bcastVars, sendVars, histVars, ecuVars>>

(***************************************************************************)
(* The ECU handler K01.  The handler sits on the ISO-TP layer: a           *)
(* Message.Send either succeeds or fails, and a uds.Read returns the next  *)
(* message of the ECU or the context's error.  The handler's two loops,    *)
(* its message broadcaster, readMessage, Cleanup and ScanK01 are modelled  *)
(* step by step.                                                           *)
(***************************************************************************)
\* the channels the message broadcaster hands out
MsgChans == 1..MaxMsgChans
\* the callers of Cleanup
Cleaners == 1..NumCleaners

ServiceReadIdK01 == 26
SubfunctionReadVINK01 == 1
SubfunctionReadECUHardwareIdK01 == 2
SubfunctionReadECUSoftwareIdK01 == 5
SubfunctionReadManufacturerK01 == 7
SubfunctionReadModelK01 == 8

\* &K01{}: the zero value of the struct, with the state of its two goroutines
\* (pending is the message uds.Read returned to the read loop) and of the
\* context Start derives (cancelled: cancelFunc was called; parentDone: the
\* caller's context was cancelled; disconnected: disconnectFunc was called)
NewK01 ==
    [isRunning |-> 0, cancelled |-> FALSE, parentDone |-> FALSE,
     disconnected |-> FALSE, wg |-> 0,
     testerPresentLoop |-> "none", processAndBroadcastUDSMessages |-> "none",
     pending |-> NilMessage, sent |-> 0, broadcasts |-> 0]

\* ecuCtx.Done() is readable
EcuCtxDone == k01.cancelled \/ k01.parentDone \/ k01.disconnected

\* NewUDSMessageBroadcaster; closed[ch] counts the close(ch) calls, made the
\* channels created, delivered[ch] is every message ever enqueued on ch
NewUDSMessageBroadcaster ==
    [subscribers |-> {}, queue |-> [ch \in MsgChans |-> <<>>],
     closed |-> [ch \in MsgChans |-> 0], made |-> 0,
     delivered |-> [ch \in MsgChans |-> <<>>]]

\* MessageBroadcaster.Subscribe: make(chan *Message, 128) and add it to the map
MessageSubscribe(b) ==
    [b EXCEPT !.made = b.made + 1, !.subscribers = b.subscribers \cup {b.made + 1}]

\* MessageBroadcaster.Unsubscribe of an open channel: delete and close
MessageUnsubscribe(b, ch) ==
    [b EXCEPT !.subscribers = b.subscribers \ {ch}, !.closed[ch] = b.closed[ch] + 1]

\* MessageBroadcaster.Broadcast: a non-blocking send to every subscriber, the
\* message dropped for a subscriber whose queue is full
MessageBroadcast(b, message) ==
    [b EXCEPT
        !.queue = [ch \in MsgChans |->
                      IF ch \in b.subscribers /\ Len(b.queue[ch]) < ChanCap
                      THEN Append(b.queue[ch], message) ELSE b.queue[ch]],
        !.delivered = [ch \in MsgChans |->
                      IF ch \in b.subscribers /\ Len(b.queue[ch]) < ChanCap
                      THEN Append(b.delivered[ch], message) ELSE b.delivered[ch]]]

\* MessageBroadcaster.Cleanup: every subscribed channel is deleted and closed
MessageCleanup(b) ==
    [b EXCEPT !.subscribers = {},
              !.closed = [ch \in MsgChans |->
                             IF ch \in b.subscribers THEN b.closed[ch] + 1
                             ELSE b.closed[ch]]]

\* K01.Register: the handler becomes the ECU service, with a new broadcaster
Register ==
    /\ registry' = TRUE
    /\ mb' = NewUDSMessageBroadcaster

\* K01.Start: derive the context, mark running, start the two loops
Start(e) ==
    [e EXCEPT !.cancelled = FALSE, !.isRunning = 1, !.wg = e.wg + 2,
              !.testerPresentLoop = "run",
              !.processAndBroadcastUDSMessages = "run"]

\* testerPresentLoop, the default branch: SendTesterPresent, its error only
\* logged, then the sleep
TesterPresentLoopSend ==
    /\ k01.testerPresentLoop = "run"
    /\ ~EcuCtxDone
    /\ k01.sent < MaxTesterPresents
    /\ k01' = [k01 EXCEPT !.sent = k01.sent + 1]
    /\ UNCHANGED <<mb, rm, scan, cu, registry, kg>>
    /\ UNCHANGED <<appVars, linkVars, bcastVars, sendVars, histVars, udsVars>>

\* testerPresentLoop takes <-ctx.Done(): return, and the deferred wg.Done
TesterPresentLoopExit ==
    /\ k01.testerPresentLoop = "run"
    /\ EcuCtxDone
    /\ k01' = [k01 EXCEPT !.testerPresentLoop = "done", !.wg = k01.wg - 1]
    /\ UNCHANGED <<mb, rm, scan, cu, registry, kg>>
    /\ UNCHANGED <<appVars, linkVars, bcastVars, sendVars, histVars, udsVars>>

\* processAndBroadcastUDSMessages, the default branch: uds.Read returns a
\* message.  (A Read that fails while the context is live is logged and the
\* loop continues: no change of state.)
ProcessRead(message) ==
    /\ k01.processAndBroadcastUDSMessages = "run"
    /\ ~EcuCtxDone
    /\ k01' = [k01 EXCEPT !.processAndBroadcastUDSMessages = "broadcast",
                          !.pending = message,
                          !.broadcasts = k01.broadcasts + 1]
    /\ UNCHANGED <<mb, rm, scan, cu, registry, kg>>
    /\ UNCHANGED <<appVars, linkVars, bcastVars, sendVars, histVars, udsVars>>

\* ... and hands it to the broadcaster
ProcessBroadcast ==
    /\ k01.processAndBroadcastUDSMessages = "broadcast"
    /\ mb' = MessageBroadcast(mb, k01.pending)
    /\ k01' = [k01 EXCEPT !.processAndBroadcastUDSMessages = "run",
                          !.pending = NilMessage]
    /\ UNCHANGED <<rm, scan, cu, registry, kg>>
    /\ UNCHANGED <<appVars, linkVars, bcastVars, sendVars, histVars, udsVars>>

\* processAndBroadcastUDSMessages takes <-ctx.Done(), or its uds.Read returns
\* the cancellation: return, and the deferred wg.Done
ProcessExit ==
    /\ k01.processAndBroadcastUDSMessages = "run"
    /\ EcuCtxDone
    /\ k01' = [k01 EXCEPT !.processAndBroadcastUDSMessages = "done",
                          !.wg = k01.wg - 1]
    /\ UNCHANGED <<mb, rm, scan, cu, registry, kg>>
    /\ UNCHANGED <<appVars, linkVars, bcastVars, sendVars, histVars, udsVars>>

\* the context given to Start and to readMessage is cancelled
CancelCtx ==
    /\ ~k01.parentDone
    /\ k01' = [k01 EXCEPT !.parentDone = TRUE]
    /\ UNCHANGED <<mb, rm, scan, cu, registry, kg>>
    /\ UNCHANGED <<appVars, linkVars, bcastVars, sendVars, histVars, udsVars>>

(***************************************************************************)
(* The read loop step by step: processAndBroadcastUDSMessages calls        *)
(* uds.Read with the handler's context, and Read runs as above, its select *)
(* also watching ctx.Done().  k01.processAndBroadcastUDSMessages is then   *)
(* "run" (at the loop's select), "read" (in uds.Read), "broadcast", "done" *)
(* or "panicked".                                                          *)
(***************************************************************************)
\* Read's select takes <-ctx.Done(): return nil, ctx.Err(), and the deferred
\* Unsubscribe
ReadCancelled ==
    /\ rd.pc = "wait"
    /\ EcuCtxDone
    /\ rd' = [rd EXCEPT !.pc = "done", !.result = DeferUnsubscribe({"rd"}, "Canceled")]
    /\ rdChan' = <<>>
    /\ UNCHANGED <<tx, fcChan, mfChan, evLog, codec>>
    /\ UNCHANGED <<appVars, linkVars, bcastVars, sendVars, histVars, ecuVars>>

\* receiveMultiFrame's select takes <-readCtx.Done() because ctx, the parent
\* of readCtx, is cancelled: the return is the same as on the timeout
MultiCancelled ==
    /\ rd.pc = "multi"
    /\ EcuCtxDone
    /\ rd' = [rd EXCEPT !.pc = "done", !.result = DeferUnsubscribe({"rd", "mf"},
                                                   "errorMultiFrameReadTimeout")]
    /\ mfChan' = <<>> /\ rdChan' = <<>>
    /\ UNCHANGED <<tx, fcChan, evLog, codec>>
    /\ UNCHANGED <<appVars, linkVars, bcastVars, sendVars, histVars, ecuVars>>

\* RawDataToMessage indexes rawData[1] and rawData[2] of a negative response
\* without a check of its length
RawDataToMessagePanics(rawData, isResponse) ==
    /\ isResponse
    /\ Len(rawData) > 0
    /\ rawData[1] = NegativeResponseByte
    /\ Len(rawData) < 3

\* the loop's select takes the default branch and calls uds.Read, which
\* subscribes
ProcessCallRead ==
    /\ k01.processAndBroadcastUDSMessages = "run"
    /\ ~EcuCtxDone
    /\ k01' = [k01 EXCEPT !.processAndBroadcastUDSMessages = "read"]
    /\ rd' = [IdleRead EXCEPT !.pc = "wait"]
    /\ rdChan' = <<>>
    /\ UNCHANGED <<mb, rm, scan, cu, registry, kg>>
    /\ UNCHANGED <<tx, fcChan, mfChan, evLog, codec>>
    /\ fq' = fq \ {"rd"}
    /\ UNCHANGED <<re, linkVars, bcastVars, sendVars, histVars>>

\* uds.Read has returned: on an error the loop returns if the context is
\* cancelled and continues if not; a message is kept for the broadcast; no
\* message (empty raw data) continues; a panic of Read or of
\* RawDataToMessage ends the goroutine with the panic
ProcessReadReturn ==
    /\ k01.processAndBroadcastUDSMessages = "read"
    /\ rd.pc = "done"
    /\ k01' =
         IF rd.result = "panic" \/ (rd.result = "nil" /\ RawDataToMessagePanics(rd.data, TRUE))
         THEN [k01 EXCEPT !.processAndBroadcastUDSMessages = "panicked"]
         ELSE IF rd.result # "nil"
         THEN IF EcuCtxDone
              THEN [k01 EXCEPT !.processAndBroadcastUDSMessages = "done",
                               !.wg = k01.wg - 1]
              ELSE [k01 EXCEPT !.processAndBroadcastUDSMessages = "run"]
         ELSE IF rd.data = <<>>
         THEN [k01 EXCEPT !.processAndBroadcastUDSMessages = "run"]
         ELSE [k01 EXCEPT !.processAndBroadcastUDSMessages = "broadcast",
                          !.pending = RawDataToMessage(rd.first.ID, rd.data, TRUE),
                          !.broadcasts = k01.broadcasts + 1]
    /\ rd' = IdleRead
    /\ UNCHANGED <<mb, rm, scan, cu, registry, kg>>
    /\ UNCHANGED <<tx, fcChan, rdChan, mfChan, evLog, codec>>
    /\ UNCHANGED <<appVars, linkVars, bcastVars, sendVars, histVars>>

(***************************************************************************)
(* K01.Cleanup, per caller.  cu.ecu[c] is the caller's position and        *)
(* cu.ecuSteps the steps of the teardown body that ran, in order.          *)
(***************************************************************************)
\* atomic.CompareAndSwapInt32(&e.isRunning, 1, 0); return when it fails
CleanupCAS(c) ==
    /\ cu.ecu[c] = "cas"
    /\ IF k01.isRunning = 1
       THEN /\ k01' = [k01 EXCEPT !.isRunning = 0]
            /\ cu' = [cu EXCEPT !.ecu[c] = "cancel"]
       ELSE /\ cu' = [cu EXCEPT !.ecu[c] = "returned"]
            /\ UNCHANGED k01
    /\ UNCHANGED <<mb, rm, scan, registry, kg>>
    /\ UNCHANGED <<appVars, linkVars, bcastVars, sendVars, histVars, udsVars>>

\* e.cancelFunc()
CleanupCancel(c) ==
    /\ cu.ecu[c] = "cancel"
    /\ k01' = [k01 EXCEPT !.cancelled = TRUE]
    /\ cu' = [cu EXCEPT !.ecu[c] = "broadcaster",
                        !.ecuSteps = Append(cu.ecuSteps, "cancel")]
    /\ UNCHANGED <<mb, rm, scan, registry, kg>>
    /\ UNCHANGED <<appVars, linkVars, bcastVars, sendVars, histVars, udsVars>>

\* e.messageBroadcaster.Cleanup()
CleanupBroadcaster(c) ==
    /\ cu.ecu[c] = "broadcaster"
    /\ mb' = MessageCleanup(mb)
    /\ cu' = [cu EXCEPT !.ecu[c] = "wait",
                        !.ecuSteps = Append(cu.ecuSteps, "broadcaster")]
    /\ UNCHANGED <<k01, rm, scan, registry, kg>>
    /\ UNCHANGED <<appVars, linkVars, bcastVars, sendVars, histVars, udsVars>>

\* a Cleanup that returns without waiting for the loops
CleanupWaitSkipped(c) ==
    /\ cu.ecu[c] = "wait"
    /\ cu' = [cu EXCEPT !.ecu[c] = "returned",
                        !.ecuSteps = Append(cu.ecuSteps, "wait")]
    /\ UNCHANGED <<k01, mb, rm, scan, registry, kg>>
    /\ UNCHANGED <<appVars, linkVars, bcastVars, sendVars, histVars, udsVars>>

\* e.wg.Wait() returns once both loops have called wg.Done
CleanupWait(c) ==
    /\ cu.ecu[c] = "wait"
    /\ k01.wg = 0
    /\ cu' = [cu EXCEPT !.ecu[c] = "returned",
                        !.ecuSteps = Append(cu.ecuSteps, "wait")]
    /\ UNCHANGED <<k01, mb, rm, scan, registry, kg>>
    /\ UNCHANGED <<appVars, linkVars, bcastVars, sendVars, histVars, udsVars>>

\* a caller whose Cleanup has returned invokes it again
CleanupRecall(c) ==
    /\ cu.ecu[c] = "returned"
    /\ cu' = [cu EXCEPT !.ecu[c] = "cas"]
    /\ UNCHANGED <<k01, mb, rm, scan, registry, kg>>
    /\ UNCHANGED <<appVars, linkVars, bcastVars, sendVars, histVars, udsVars>>

\* a caller invokes Cleanup
CleanupCall(c) ==
    /\ cu.ecu[c] = "idle"
    /\ cu' = [cu EXCEPT !.ecu[c] = "cas"]
    /\ UNCHANGED <<k01, mb, rm, scan, registry, kg>>
    /\ UNCHANGED <<appVars, linkVars, bcastVars, sendVars, histVars, udsVars>>

(***************************************************************************)
(* K01.readMessage.  rm.taken is every message the call received from its  *)
(* channel, in order; rm.message and rm.err are what it returns.           *)
(***************************************************************************)
IdleReadMessage ==
    [pc |-> "idle", serviceId |-> Nil, subfunction |-> Nil, messageChan |-> Nil,
     taken |-> <<>>, message |-> NilMessage, err |-> "none"]

\* a filter that does not look at the subfunction
readMessageKeepsAnySubfunction(message, serviceId, subfunction) ==
    IF serviceId # Nil /\ message.ServiceID # serviceId THEN FALSE
    ELSE IF message.IsPositive = Nil THEN FALSE
    ELSE TRUE

\* the body of the receive case: TRUE when it returns the message, FALSE when
\* it continues
readMessageKeeps(message, serviceId, subfunction) ==
    IF serviceId # Nil /\ message.ServiceID # serviceId THEN FALSE
    ELSE IF message.IsPositive = Nil THEN FALSE
    ELSE IF message.IsPositive = 0 THEN TRUE
    ELSE IF subfunction # Nil
            /\ (message.Subfunction = Nil \/ message.Subfunction # subfunction)
         THEN FALSE
    ELSE TRUE

\* the call, up to the load of isRunning: not connected is returned at once
ReadMessageEnter(serviceId, subfunction) ==
    rm' = IF k01.isRunning = 0
          THEN [IdleReadMessage EXCEPT !.pc = "returned", !.err = "notConnected",
                                       !.serviceId = serviceId,
                                       !.subfunction = subfunction]
          ELSE [IdleReadMessage EXCEPT !.pc = "subscribe",
                                       !.serviceId = serviceId,
                                       !.subfunction = subfunction]

\* a caller of the handler's operations calls readMessage
ReadMessageCall(serviceId, subfunction) ==
    /\ rm.pc = "idle"
    /\ ReadMessageEnter(serviceId, subfunction)
    /\ UNCHANGED <<k01, mb, scan, cu, registry, kg>>
    /\ UNCHANGED <<appVars, linkVars, bcastVars, sendVars, histVars, udsVars>>

\* messageChan, _ := e.subscribeReadMessages(): nil and an ignored error when
\* isRunning is 0 by now, else a new subscription
ReadMessageSubscribe ==
    /\ rm.pc = "subscribe"
    /\ mb.made < MaxMsgChans
    /\ IF k01.isRunning = 0
       THEN /\ rm' = [rm EXCEPT !.pc = "select", !.messageChan = Nil]
            /\ UNCHANGED mb
       ELSE /\ rm' = [rm EXCEPT !.pc = "select", !.messageChan = mb.made + 1]
            /\ mb' = MessageSubscribe(mb)
    /\ UNCHANGED <<k01, scan, cu, registry, kg>>
    /\ UNCHANGED <<appVars, linkVars, bcastVars, sendVars, histVars, udsVars>>

\* the select takes a message from messageChan: return it or continue
ReadMessageReceive ==
    /\ rm.pc = "select"
    /\ rm.messageChan # Nil
    /\ mb.queue[rm.messageChan] # <<>>
    /\ LET message == Head(mb.queue[rm.messageChan])
       IN  /\ mb' = [mb EXCEPT !.queue[rm.messageChan] = Tail(@)]
           /\ rm' = IF readMessageKeeps(message, rm.serviceId, rm.subfunction)
                    THEN [rm EXCEPT !.pc = "defer", !.message = message,
                                    !.taken = Append(rm.taken, message)]
                    ELSE [rm EXCEPT !.taken = Append(rm.taken, message)]
    /\ UNCHANGED <<k01, scan, cu, registry, kg>>
    /\ UNCHANGED <<appVars, linkVars, bcastVars, sendVars, histVars, udsVars>>

\* the select takes the nil message of a closed and drained messageChan: the
\* filter dereferences it and the goroutine panics
ReadMessageReceiveClosed ==
    /\ rm.pc = "select"
    /\ rm.messageChan # Nil
    /\ mb.queue[rm.messageChan] = <<>>
    /\ mb.closed[rm.messageChan] > 0
    /\ rm' = [rm EXCEPT !.pc = "panicked"]
    /\ UNCHANGED <<k01, mb, scan, cu, registry, kg>>
    /\ UNCHANGED <<appVars, linkVars, bcastVars, sendVars, histVars, udsVars>>

\* the select takes <-readCtx.Done() after ReadTimeoutK01
ReadMessageTimeout ==
    /\ rm.pc = "select"
    /\ rm' = [rm EXCEPT !.pc = "defer", !.err = "DeadlineExceeded"]
    /\ UNCHANGED <<k01, mb, scan, cu, registry, kg>>
    /\ UNCHANGED <<appVars, linkVars, bcastVars, sendVars, histVars, udsVars>>

\* the select takes <-readCtx.Done() because the caller's context is cancelled
ReadMessageCancelled ==
    /\ rm.pc = "select"
    /\ k01.parentDone
    /\ rm' = [rm EXCEPT !.pc = "defer", !.err = "Canceled"]
    /\ UNCHANGED <<k01, mb, scan, cu, registry, kg>>
    /\ UNCHANGED <<appVars, linkVars, bcastVars, sendVars, histVars, udsVars>>

\* a return that leaves the subscription in place
ReadMessageUnsubscribeSkipped ==
    /\ rm.pc = "defer"
    /\ rm' = [rm EXCEPT !.pc = "returned"]
    /\ UNCHANGED <<k01, mb, scan, cu, registry, kg>>
    /\ UNCHANGED <<appVars, linkVars, bcastVars, sendVars, histVars, udsVars>>

\* the deferred e.unsubscribeReadMessages(messageChan), then the return.
\* Unsubscribe deletes and closes: close panics on the nil channel, and on a
\* channel the broadcaster's Cleanup closed already
ReadMessageUnsubscribe ==
    /\ rm.pc = "defer"
    /\ IF rm.messageChan = Nil
       THEN /\ rm' = [rm EXCEPT !.pc = "panicked"]
            /\ UNCHANGED mb
       ELSE IF mb.closed[rm.messageChan] > 0
       THEN /\ rm' = [rm EXCEPT !.pc = "panicked"]
            /\ mb' = [mb EXCEPT !.subscribers = mb.subscribers \ {rm.messageChan}]
       ELSE /\ rm' = [rm EXCEPT !.pc = "returned"]
            /\ mb' = MessageUnsubscribe(mb, rm.messageChan)
    /\ UNCHANGED <<k01, scan, cu, registry, kg>>
    /\ UNCHANGED <<appVars, linkVars, bcastVars, sendVars, histVars, udsVars>>

(***************************************************************************)
(* K01.ReadErrors: the request is sent, the response is read with          *)
(* readMessage, and its Data is scanned from offset 1 in steps of two.     *)
(* re.pc is "idle", "read" (the request sent, in readMessage), "returned"  *)
(* or "panicked".                                                          *)
(***************************************************************************)
ServiceReadErrorsK01 == 3

IdleReadErrors == [pc |-> "idle", data |-> <<>>, dtcs |-> <<>>, err |-> "none"]

\* the digits of %X
HexDigits == <<"0", "1", "2", "3", "4", "5", "6", "7",
               "8", "9", "A", "B", "C", "D", "E", "F">>

\* fmt.Sprintf("%02X", b)
Sprintf02X(b) == HexDigits[(b \div 16) + 1] \o HexDigits[(b % 16) + 1]

RECURSIVE scanDtcs(_, _)
\* the loop "for i := 1; i < len(resp.Data); i += 2" from index i on:
\* resp.Data[i+1] is read without a check, so an index past the end panics
scanDtcs(data, i) ==
    IF i >= Len(data) THEN [dtcs |-> <<>>, panicked |-> FALSE]
    ELSE IF i + 1 >= Len(data) THEN [dtcs |-> <<>>, panicked |-> TRUE]
    ELSE LET rest == scanDtcs(data, i + 2)
         IN  [dtcs |-> <<Sprintf02X(data[i + 1]) \o Sprintf02X(data[i + 2])>>
                       \o rest.dtcs,
              panicked |-> rest.panicked]

\* ReadErrors up to the return of req.Send, which succeeds or not
ReadErrorsSend(ok) ==
    /\ re.pc = "idle"
    /\ Emit("send", SingleFrame(TesterID, 1, <<ServiceReadErrorsK01>>))
    /\ re' = IF ok THEN [re EXCEPT !.pc = "read"]
             ELSE [re EXCEPT !.pc = "returned", !.err = "sendError"]
    /\ UNCHANGED <<tx, fcChan, rd, rdChan, mfChan, codec>>
    /\ UNCHANGED <<fq, linkVars, bcastVars, sendVars, histVars, ecuVars>>

\* readMessage fails: ReadErrors returns no codes
ReadErrorsReadFailed ==
    /\ re.pc = "read"
    /\ re' = [re EXCEPT !.pc = "returned", !.err = "readError"]
    /\ UNCHANGED <<fq, linkVars, bcastVars, sendVars, histVars, udsVars, ecuVars>>

\* readMessage returns resp: the loop over resp.Data runs and the codes are
\* returned, unless the loop panics
ReadErrorsRead(resp) ==
    /\ re.pc = "read"
    /\ LET r == scanDtcs(resp.Data, 1)
       IN  re' = [re EXCEPT !.pc = IF r.panicked THEN "panicked" ELSE "returned",
                            !.data = resp.Data,
                            !.dtcs = IF r.panicked THEN <<>> ELSE r.dtcs]
    /\ UNCHANGED <<fq, linkVars, bcastVars, sendVars, histVars, udsVars, ecuVars>>

(***************************************************************************)
(* The ECU layer before any handler is registered.                         *)
(***************************************************************************)
IdleScan ==
    [pc |-> "idle", step |-> 0, sends |-> 0, started |-> FALSE, resp |-> <<>>,
     ecus |-> 0, err |-> "none"]

IdleCleanup ==
    [ecu |-> [c \in Cleaners |-> "idle"], ecuSteps |-> <<>>,
     link |-> [c \in Cleaners |-> "idle"], linkSteps |-> <<>>]

IdleKey == [pc |-> "idle", seed |-> <<0, 0>>, level |-> "other", key |-> <<0, 0>>, err |-> "none"]

IdleEcu ==
    /\ k01 = NewK01 /\ mb = NewUDSMessageBroadcaster /\ rm = IdleReadMessage
    /\ scan = IdleScan /\ cu = IdleCleanup /\ registry = FALSE /\ kg = IdleKey
    /\ re = IdleReadErrors /\ fq = {}

(***************************************************************************)
(* ScanK01 and scanEcu.  scan.step is the exchange in progress: 0 the      *)
(* TesterPresent, 1..5 the identification requests in scanEcu's order.     *)
(* scan.resp is what the readMessage calls returned, scan.ecus the number  *)
(* of handlers in the list ScanK01 returns.                                *)
(***************************************************************************)
\* strings, as their bytes
CompatibleECUHardwareIdsK01 == {<<54, 49, 51, 46, 52, 49, 46, 48, 51, 49, 46, 51, 48, 48>>}
CompatibleECUSoftwareIdsK01 == {<<75, 77, 50, 65, 48, 69, 85, 49, 55, 72, 48, 54, 51, 49>>}
CompatibleModelsK01 == {<<70, 69, 47, 70, 83, 32, 55, 48, 49>>}

\* unicode.IsPrint of a byte taken as a rune
IsPrint(b) == (b >= 32 /\ b <= 126) \/ (b >= 161 /\ b # 173)

\* Message.ASCIIRepresentation: the printable bytes of Data, "N/A" when none
ASCIIRepresentation(m) ==
    LET result == SelectSeq(m.Data, IsPrint)
    IN  IF result = <<>> THEN <<78, 47, 65>> ELSE result

\* the subfunctions scanEcu asks for, in its order
ScanSubfunctions ==
    <<SubfunctionReadECUHardwareIdK01, SubfunctionReadECUSoftwareIdK01,
      SubfunctionReadModelK01, SubfunctionReadVINK01, SubfunctionReadManufacturerK01>>

\* a scanEcu that does not check the model
CompatibleModelUnchecked(step, resp) ==
    CASE step = 1 -> ASCIIRepresentation(resp) \in CompatibleECUHardwareIdsK01
      [] step = 2 -> ASCIIRepresentation(resp) \in CompatibleECUSoftwareIdsK01
      [] OTHER -> TRUE

\* scanEcu's slices.Contains checks: of the hardware ID, the software ID and
\* the model; the VIN and the manufacturer are taken as they come
Compatible(step, resp) ==
    CASE step = 1 -> ASCIIRepresentation(resp) \in CompatibleECUHardwareIdsK01
      [] step = 2 -> ASCIIRepresentation(resp) \in CompatibleECUSoftwareIdsK01
      [] step = 3 -> ASCIIRepresentation(resp) \in CompatibleModelsK01
      [] OTHER -> TRUE

\* ScanK01 up to the second defer: Register, Start
ScanCall ==
    /\ scan.pc = "idle"
    /\ Register
    /\ k01' = Start(NewK01)
    /\ scan' = [scan EXCEPT !.pc = "send", !.started = TRUE]
    /\ UNCHANGED <<rm, cu, kg>>
    /\ UNCHANGED <<appVars, linkVars, bcastVars, sendVars, histVars, udsVars>>

\* uds.SendTesterPresent in ScanK01, req.Send in scanEcu: on an error the scan
\* returns nil, else it calls readMessage with the filters of the exchange
ScanSend(ok) ==
    /\ scan.pc = "send"
    /\ IF ok
       THEN /\ scan' = [scan EXCEPT !.pc = "read", !.sends = scan.sends + 1]
            /\ IF scan.step = 0
               THEN ReadMessageEnter(ServiceTesterPresent, Nil)
               ELSE ReadMessageEnter(ServiceReadIdK01, ScanSubfunctions[scan.step])
       ELSE /\ scan' = [scan EXCEPT !.pc = "defer", !.err = "send"]
            /\ UNCHANGED rm
    /\ UNCHANGED <<k01, mb, cu, registry, kg>>
    /\ UNCHANGED <<appVars, linkVars, bcastVars, sendVars, histVars, udsVars>>

\* readMessage has returned: an error ends the scan, and so does a hardware
\* ID, software ID or model outside its list; after the manufacturer the new
\* handler is appended to the list
ScanRead ==
    /\ scan.pc = "read"
    /\ rm.pc = "returned"
    /\ rm' = IdleReadMessage
    /\ scan' =
         IF rm.err # "none"
         THEN [scan EXCEPT !.pc = "defer", !.err = "read"]
         ELSE IF ~Compatible(scan.step, rm.message)
         THEN [scan EXCEPT !.pc = "defer", !.err = "incompatible",
                           !.resp = Append(scan.resp, rm.message)]
         ELSE IF scan.step < 5
         THEN [scan EXCEPT !.pc = "send", !.step = scan.step + 1,
                           !.resp = Append(scan.resp, rm.message)]
         ELSE [scan EXCEPT !.pc = "defer", !.ecus = scan.ecus + 1,
                           !.resp = Append(scan.resp, rm.message)]
    /\ UNCHANGED <<k01, mb, cu, registry, kg>>
    /\ UNCHANGED <<appVars, linkVars, bcastVars, sendVars, histVars, udsVars>>

\* the deferred tempProcessor.Cleanup() is called
ScanDeferCleanup ==
    /\ scan.pc = "defer"
    /\ cu.ecu[1] = "idle"
    /\ cu' = [cu EXCEPT !.ecu[1] = "cas"]
    /\ scan' = [scan EXCEPT !.pc = "cleanup"]
    /\ UNCHANGED <<k01, mb, rm, registry, kg>>
    /\ UNCHANGED <<appVars, linkVars, bcastVars, sendVars, histVars, udsVars>>

\* services.Deregister(name): the entry is removed from the registry
Deregister == registry' = FALSE

\* Cleanup has returned: the deferred services.Deregister, and the return
ScanDeferDeregister ==
    /\ scan.pc = "cleanup"
    /\ cu.ecu[1] = "returned"
    /\ Deregister
    /\ scan' = [scan EXCEPT !.pc = "returned"]
    /\ UNCHANGED <<k01, mb, rm, cu, kg>>
    /\ UNCHANGED <<appVars, linkVars, bcastVars, sendVars, histVars, udsVars>>

(***************************************************************************)
(* ecus.Connect and ecus.Disconnect of the handler the scan found.         *)
(***************************************************************************)
\* Connect: Register, derive the context disconnectFunc cancels, Start
Connect ==
    /\ ~registry
    /\ k01.isRunning = 0 /\ ~k01.disconnected
    /\ Register
    /\ k01' = Start(NewK01)
    /\ UNCHANGED <<rm, scan, cu, kg>>
    /\ UNCHANGED <<appVars, linkVars, bcastVars, sendVars, histVars, udsVars>>

\* Disconnect: disconnectFunc(), then services.Deregister
Disconnect ==
    /\ registry
    /\ k01' = [k01 EXCEPT !.disconnected = TRUE]
    /\ Deregister
    /\ UNCHANGED <<mb, rm, scan, cu, kg>>
    /\ UNCHANGED <<appVars, linkVars, bcastVars, sendVars, histVars, udsVars>>

(***************************************************************************)
(* ArduinoDriver.Cleanup, per caller.  cu.link[c] is the caller's position *)
(* and cu.linkSteps the steps of the teardown body that ran, in order.     *)
(***************************************************************************)
\* a caller invokes Cleanup, for the first time or again
DriverCleanupCall(c) ==
    /\ cu.link[c] \in {"idle", "returned"}
    /\ cu' = [cu EXCEPT !.link[c] = "cas"]
    /\ UNCHANGED <<k01, mb, rm, scan, registry, kg>>
    /\ UNCHANGED <<appVars, linkVars, bcastVars, sendVars, histVars, udsVars>>

\* atomic.CompareAndSwapInt32(&d.isRunning, 1, 0); return when it fails
DriverCleanupCAS(c) ==
    /\ cu.link[c] = "cas"
    /\ IF isRunning = 1
       THEN /\ isRunning' = 0
            /\ cu' = [cu EXCEPT !.link[c] = "cancel"]
       ELSE /\ cu' = [cu EXCEPT !.link[c] = "returned"]
            /\ UNCHANGED isRunning
    /\ UNCHANGED <<rx, written, rdPc, inFrame, buf, heap, readChan, writeChan, ackChan,
                   vpPc, wrPc, ctxDone>>
    /\ UNCHANGED <<k01, mb, rm, scan, registry, kg>>
    /\ UNCHANGED <<appVars, bcastVars, sendVars, histVars, udsVars>>

\* d.cancelFunc()
DriverCleanupCancel(c) ==
    /\ cu.link[c] = "cancel"
    /\ ctxDone' = TRUE
    /\ cu' = [cu EXCEPT !.link[c] = "close",
                        !.linkSteps = Append(cu.linkSteps, "cancel")]
    /\ UNCHANGED <<rx, written, rdPc, inFrame, buf, heap, readChan, writeChan, ackChan,
                   vpPc, wrPc, isRunning>>
    /\ UNCHANGED <<k01, mb, rm, scan, registry, kg>>
    /\ UNCHANGED <<appVars, bcastVars, sendVars, histVars, udsVars>>

\* close(d.readChan); close(d.writeChan); close(d.ackChan)
DriverCleanupClose(c) ==
    /\ cu.link[c] = "close"
    /\ cu' = [cu EXCEPT !.link[c] = "broadcaster",
                        !.linkSteps = cu.linkSteps \o
                                      <<"closeRead", "closeWrite", "closeAck">>]
    /\ UNCHANGED <<k01, mb, rm, scan, registry, kg>>
    /\ UNCHANGED <<appVars, linkVars, bcastVars, sendVars, histVars, udsVars>>

\* d.frameBroadcaster.Cleanup()
DriverCleanupBroadcaster(c) ==
    /\ cu.link[c] = "broadcaster"
    /\ ~bActive
    /\ subs' = {}
    /\ closes' = [ch \in Chans |-> IF ch \in subs THEN closes[ch] + 1 ELSE closes[ch]]
    /\ cu' = [cu EXCEPT !.link[c] = "wait",
                        !.linkSteps = Append(cu.linkSteps, "broadcaster")]
    /\ UNCHANGED <<queue, bActive, bFrame, bRemaining, got, subAt, offerLog, held>>
    /\ UNCHANGED <<k01, mb, rm, scan, registry, kg>>
    /\ fq' = HeldQueues
    /\ UNCHANGED <<re, linkVars, sendVars, histVars, udsVars>>

\* d.wg.Wait() returns once the three loops have returned
DriverCleanupWait(c) ==
    /\ cu.link[c] = "wait"
    /\ rdPc = "exit" /\ vpPc = "exit" /\ wrPc = "exit"
    /\ cu' = [cu EXCEPT !.link[c] = "port",
                        !.linkSteps = Append(cu.linkSteps, "wait")]
    /\ UNCHANGED <<k01, mb, rm, scan, registry, kg>>
    /\ UNCHANGED <<appVars, linkVars, bcastVars, sendVars, histVars, udsVars>>

\* d.port.Close(), and the return
DriverCleanupPort(c) ==
    /\ cu.link[c] = "port"
    /\ cu' = [cu EXCEPT !.link[c] = "returned",
                        !.linkSteps = Append(cu.linkSteps, "port")]
    /\ UNCHANGED <<k01, mb, rm, scan, registry, kg>>
    /\ UNCHANGED <<appVars, linkVars, bcastVars, sendVars, histVars, udsVars>>

(***************************************************************************)
(* seedkey.GenerateK01Key.  A level is named by its constant; "other" is   *)
(* any value of SecurityLevel that is none of the three.                   *)
(***************************************************************************)
SecurityLevels == {"SecurityLevel1", "SecurityLevel2", "SecurityLevel3", "other"}

ErrMissingMagic == "missing magic number for Level 1"
ErrInvalidLevel == "invalid level in generateSeedKey"

\* the key of a generator that has the two magic numbers the wrong way round
GenerateK01KeyMagicSwapped(seed, level) ==
    IF level = "SecurityLevel1" THEN [key |-> <<0, 0>>, err |-> ErrMissingMagic]
    ELSE IF level \notin {"SecurityLevel2", "SecurityLevel3"}
    THEN [key |-> <<0, 0>>, err |-> ErrInvalidLevel]
    ELSE LET magicNumber == IF level = "SecurityLevel2" THEN 28465 ELSE 19790
             x == ((seed[1] * 256) % 65536) + seed[2]
             key == ((magicNumber * x) % 65536) % 65536
         IN  [key |-> <<(key \div 256) % 256, key % 256>>, err |-> "none"]

\* the key of a generator that splits the key low byte first
GenerateK01KeyLowByteFirst(seed, level) ==
    IF level = "SecurityLevel1" THEN [key |-> <<0, 0>>, err |-> ErrMissingMagic]
    ELSE IF level \notin {"SecurityLevel2", "SecurityLevel3"}
    THEN [key |-> <<0, 0>>, err |-> ErrInvalidLevel]
    ELSE LET magicNumber == IF level = "SecurityLevel2" THEN 19790 ELSE 28465
             x == ((seed[1] * 256) % 65536) + seed[2]
             key == ((magicNumber * x) % 65536) % 65536
         IN  [key |-> <<key % 256, (key \div 256) % 256>>, err |-> "none"]

\* GenerateK01Key: the switch on the level (magic numbers 0x4D4E and 0x6F31);
\* x, where the operands of | share no bit, so that | adds; the uint16
\* product and its & 0xFFFF; the bytes (key >> 8) & 0xFF and key & 0xFF.  An
\* error comes with the zero [2]byte
GenerateK01Key(seed, level) ==
    IF level = "SecurityLevel1" THEN [key |-> <<0, 0>>, err |-> ErrMissingMagic]
    ELSE IF level \notin {"SecurityLevel2", "SecurityLevel3"}
    THEN [key |-> <<0, 0>>, err |-> ErrInvalidLevel]
    ELSE LET magicNumber == IF level = "SecurityLevel2" THEN 19790 ELSE 28465
             x == ((seed[1] * 256) % 65536) + seed[2]
             key == ((magicNumber * x) % 65536) % 65536
         IN  [key |-> <<(key \div 256) % 256, key % 256>>, err |-> "none"]

\* a call of GenerateK01Key
GenerateKey(seed, level) ==
    /\ kg.pc = "idle"
    /\ LET result == GenerateK01Key(seed, level)
       IN  kg' = [pc |-> "returned", seed |-> seed, level |-> level,
                  key |-> result.key, err |-> result.err]
    /\ UNCHANGED <<k01, mb, rm, scan, cu, registry>>
    /\ UNCHANGED <<appVars, linkVars, bcastVars, sendVars, histVars, udsVars>>

(***************************************************************************)
(* The state after Register and Start, with the port about to deliver      *)
(* script.                                                                 *)
(***************************************************************************)
InitDriver(script) ==
    /\ rx = script
    /\ written = <<>>
    /\ rdPc = "run" /\ inFrame = FALSE /\ buf = NilSlice /\ heap = <<>>
    /\ readChan = <<>> /\ writeChan = <<>> /\ ackChan = <<>>
    /\ vpPc = "recv" /\ wrPc = "sel"
    /\ isRunning = 1 /\ ctxDone = FALSE
    /\ subs = {} /\ queue = [ch \in Chans |-> <<>>]
    /\ bActive = FALSE /\ bFrame = NoFrame /\ bRemaining = {}
    /\ got = [ch \in Chans |-> <<>>]
    /\ subAt = [ch \in Chans |-> 0]
    /\ offerLog = [ch \in Chans |-> <<>>]
    /\ held = {} /\ closes = [ch \in Chans |-> 0]
    /\ sf = [c \in Callers |-> IdleCall]
    /\ callerDone = [c \in Callers |-> FALSE]
    /\ bcastLog = <<>> /\ enqLog = <<>> /\ rdLog = <<>>
    /\ tx = IdleSend /\ fcChan = <<>>
    /\ rd = IdleRead /\ rdChan = <<>> /\ mfChan = <<>>
    /\ evLog = <<>> /\ codec = IdleCodec

(***************************************************************************)
(* SpecCodec: one encoded frame, or one stuffed body, is fed to the port   *)
(* whole and the link decodes it.                                          *)
(***************************************************************************)
CodecInputs ==
    {[kind |-> "frame", frame |-> f, body |-> frameToBytes(f), wire |-> createFrameBytes(f)]
        : f \in TestFrames}
    \cup {[kind |-> "body", frame |-> NoFrame, body |-> b, wire |-> StuffBody(b)]
        : b \in TestBodies}

InitCodec ==
    \E input \in CodecInputs :
        /\ src = input
        /\ InitDriver(input.wire)
        /\ IdleEcu

NextCodec ==
    \/ ReadStart \/ ReadData \/ ReadEscapeValid \/ ReadEnd \/ ReadSend \/ ReadTimeout
    \/ ValidateFrame \/ BroadcastReturn
    \/ WriteFrame

SpecCodec == InitCodec /\ [][NextCodec]_vars


(***************************************************************************)
(* Claims about the codec, under SpecCodec.                                *)
(***************************************************************************)
SameFrame(g, f) ==
    /\ g.ID = f.ID
    /\ g.DLC = f.DLC
    /\ \A i \in 1..f.DLC : g.Data[i] = f.Data[i]

\* the port has nothing more to deliver and the link has dealt with all of it
LinkQuiet ==
    /\ rx = <<>> /\ rdPc = "run"
    /\ readChan = <<>> /\ vpPc = "recv"

\* C3: the frame decoded from createFrameBytes(f) by the read loop and
\* readFrame has the ID, the DLC and the first DLC data bytes of f: nothing
\* else is ever published, and once the link has dealt with the bytes exactly
\* one frame has been.
C3_LinkRoundTrip ==
    src.kind = "frame" =>
        /\ Len(bcastLog) <= 1
        /\ \A i \in 1..Len(bcastLog) : SameFrame(bcastLog[i], src.frame)
        /\ LinkQuiet => Len(bcastLog) = 1

\* a full frame of special bytes has made the round trip
C3_Witness ==
    /\ src.kind = "frame"
    /\ src.frame = Frame(32383, 8, <<126, 127, 27, 6, 21, 1, 2, 3>>)
    /\ LinkQuiet
    /\ Len(bcastLog) = 1

\* between its markers w holds no marker, and each escape character is
\* followed by one of the three tags
WireClean(w) ==
    /\ Len(w) >= 2
    /\ w[1] = ArduinoStartMarker
    /\ w[Len(w)] = ArduinoEndMarker
    /\ \A i \in 2..(Len(w) - 1) :
          /\ w[i] \notin {ArduinoStartMarker, ArduinoEndMarker}
          /\ w[i] = ArduinoEscapeChar => (i + 1 <= Len(w) - 1 /\ w[i + 1] \in {1, 2, 3})

\* C4: the stuffed form of a body s holds no bare marker between its
\* markers and only well-formed escapes, and the read loop unstuffs it to s:
\* what it assembles is a prefix of s, and what it hands to readChan is s.
C4_StuffingRoundTrip ==
    /\ WireClean(src.wire)
    /\ inFrame => IsPrefix(SliceBytes(buf), src.body)
    /\ \A k \in 1..Len(readChan) : SliceBytes(readChan[k]) = src.body
    /\ (rx = <<>> /\ rdPc = "run") => rdLog = <<"handed">>

\* a body of special bytes has been unstuffed and handed over
C4_Witness ==
    /\ src.kind = "body"
    /\ src.body = <<ArduinoEndMarker, ArduinoEscapeChar>>
    /\ readChan # <<>>
    /\ SliceBytes(readChan[1]) = src.body


(***************************************************************************)
(* SpecBcast: a broadcaster on its own, with subscribers that come and     *)
(* receive at their own pace and a caller that broadcasts.                 *)
(***************************************************************************)
\* the caller numbers its frames, so that each broadcast is told from the others
BcastFrames == {Frame(n, 0, <<>>) : n \in 1..MaxBroadcasts}

InitBcast ==
    /\ src = NoSrc
    /\ InitDriver(<<>>)
    /\ IdleEcu

NextBcast ==
    \/ \E ch \in Chans : Subscribe(ch)
    \/ \E frame \in BcastFrames : frame.ID = Len(bcastLog) + 1 /\ BroadcastCall(frame)
    \/ \E ch \in Chans : BroadcastOffer(ch)
    \/ BroadcastReturn
    \/ \E ch \in Chans : Receive(ch)

SpecBcast == InitBcast /\ [][NextBcast]_vars

(***************************************************************************)
(* SpecBcastLife: subscribers come and go while frames are broadcast and   *)
(* the broadcaster is cleaned up.                                          *)
(***************************************************************************)
NextBcastLife ==
    \/ \E ch \in Chans : Subscribe(ch)
    \/ \E ch \in Chans : Unsubscribe(ch)
    \/ \E frame \in BcastFrames : frame.ID = Len(bcastLog) + 1 /\ BroadcastCall(frame)
    \/ \E ch \in Chans : BroadcastOffer(ch)
    \/ BroadcastReturn
    \/ \E ch \in Chans : Receive(ch)
    \/ BroadcasterCleanup

SpecBcastLife == InitBcast /\ [][NextBcastLife]_vars

\* C11: every subscriber queue is removed and closed exactly once, an
\* Unsubscribe of a handle that Cleanup already closed not closing it again,
\* and Broadcast never offers a frame to a closed queue.
C11_ClosedExactlyOnce ==
    /\ \A ch \in Chans :
          /\ closes[ch] <= 1
          /\ ch \in subs <=> (ch \in held /\ closes[ch] = 0)
    /\ bActive => \A ch \in bRemaining : closes[ch] = 0

\* the frames of log taken from position from + 1 on, without those whose
\* offer found the queue full
RECURSIVE Kept(_, _, _)
Kept(log, from, full) ==
    IF full = <<>> THEN <<>>
    ELSE IF Head(full) THEN Kept(log, from + 1, Tail(full))
         ELSE <<log[from + 1]>> \o Kept(log, from + 1, Tail(full))

\* the number of broadcasts that have reached ch's turn in the loop
OffersDue(ch) ==
    Len(bcastLog) - subAt[ch] - (IF bActive /\ ch \in bRemaining THEN 1 ELSE 0)

\* C10: what a subscriber has dequeued, followed by what waits in its queue,
\* is the broadcast frames since it subscribed, in broadcast order, without
\* exactly those whose offer found its queue full; every broadcast is offered
\* to every subscriber whatever the state of the other queues, and no step of
\* Broadcast waits for room.
C10_PerSubscriberOrder ==
    /\ \A ch \in subs :
          /\ Len(offerLog[ch]) = OffersDue(ch)
          /\ got[ch] \o queue[ch] = Kept(bcastLog, subAt[ch], offerLog[ch])
    /\ bActive => \A ch \in bRemaining : ENABLED BroadcastOffer(ch)
    /\ (bActive /\ bRemaining = {}) => ENABLED BroadcastReturn

\* a frame that one subscriber lost to a full queue reached another, and the
\* first subscriber was given a later frame
C10_Witness ==
    \E ch \in subs, d \in subs :
        /\ ch # d
        /\ subAt[ch] = subAt[d]
        /\ \E k \in 1..Len(offerLog[ch]) :
              /\ k < Len(offerLog[ch])
              /\ k <= Len(offerLog[d])
              /\ offerLog[ch][k] /\ ~offerLog[d][k]
              /\ ~offerLog[ch][k + 1]
        /\ queue[ch] = <<>>


(***************************************************************************)
(* SpecSend: callers of SendFrame, each with a frame of its own and a      *)
(* context that may be cancelled, the writer, and a device that answers a  *)
(* written frame with an ACK or a NACK, or not at all.                     *)
(***************************************************************************)
\* the callers send the same frame: which is which does not matter here
ProbeFrames == {Frame(291, 3, <<1, 2, 3>>)}

InitSend ==
    /\ src = NoSrc
    /\ InitDriver(<<>>)
    /\ IdleEcu

NextSend ==
    \/ \E c \in Callers : \E frame \in ProbeFrames : SendCall(c, frame)
    \/ \E c \in Callers : SendEnqueue(c)
    \/ \E c \in Callers : SendEnqueueCancelled(c)
    \/ \E c \in Callers : SendAck(c)
    \/ \E c \in Callers : SendAckTimeout(c)
    \/ \E c \in Callers : SendAckCancelled(c)
    \/ \E c \in Callers : SendBackoff(c)
    \/ \E c \in Callers : CallerCancel(c)
    \/ \E b \in {ArduinoACK, ArduinoNACK} : DeviceAnswer(b)
    \/ ReadTimeout \/ ReadAckByte
    \/ WriteFrame

SpecSend == InitSend /\ [][NextSend]_vars

\* the delays of n backoffs in a row
Backoffs(n) == [i \in 1..n |-> ArduinoRetryDelay * (ArduinoExponentialBackoffFactor ^ (i - 1))]

RetryState(c) ==
    /\ sf[c].sends <= ArduinoMaxRetries
    /\ sf[c].slept = Backoffs(Len(sf[c].slept))
    /\ sf[c].pc = "enqueue" => Len(sf[c].slept) = sf[c].sends
    /\ sf[c].result = "NoAck" =>
          (sf[c].sends = ArduinoMaxRetries /\ Len(sf[c].slept) = ArduinoMaxRetries)
    /\ sf[c].result = "Ok" => Len(sf[c].slept) = sf[c].sends - 1

\* the wait for the ACK ends: with success at once when an ACK was taken,
\* and in the backoff when a NACK was taken or the wait timed out
RetryStep(c) ==
    (sf[c].pc = "waitAck" /\ sf'[c] # sf[c]) =>
        IF ackChan' # ackChan
        THEN IF Head(ackChan)
             THEN sf'[c].pc = "done" /\ sf'[c].result = "Ok"
             ELSE sf'[c].pc = "backoff"
        ELSE \/ sf'[c].pc = "backoff"
             \/ callerDone[c] /\ sf'[c].result = "Cancelled"

\* C1: SendFrame enqueues the frame at most ArduinoMaxRetries (3) times; an
\* attempt that ends in a NACK or in the ACK timeout is followed by a
\* backoff, of 200 ms at first and of twice the last one after that; the
\* call fails with NoAck only after the third attempt and its backoff, and
\* succeeds at once when it takes an ACK.
C1_RetryBackoff ==
    /\ [](\A c \in Callers : RetryState(c))
    /\ [][\A c \in Callers : RetryStep(c)]_vars

\* a call has failed for want of an ACK after three attempts, and another
\* has succeeded on a retry
C1_Witness ==
    \E c \in Callers, d \in Callers :
        /\ sf[c].result = "NoAck" /\ sf[c].slept = <<200, 400, 800>>
        /\ sf[d].result = "Ok" /\ sf[d].slept = <<200>>

\* C2: once its context is cancelled a call enqueues the frame no more, and
\* when it ends it ends with Cancelled.
C2_CancelPreempts ==
    [][\A c \in Callers :
          callerDone[c] =>
              /\ sf'[c].sends = sf[c].sends
              /\ (sf[c].pc # "done" /\ sf'[c].pc = "done") => sf'[c].result = "Cancelled"]_vars

(***************************************************************************)
(* SpecWrite: the enqueuers of writeChan at once.  Callers of SendFrame on *)
(* a device that answers none of their frames, so that each makes all its  *)
(* attempts, while the device sends frames of its own that frame           *)
(* validation answers.                                                     *)
(***************************************************************************)
\* each caller sends a frame of its own
SendFrames == {Frame(c, 0, <<>>) : c \in Callers}

\* a well-formed frame, and one too short
InboundWires == {createFrameBytes(Frame(0, 0, <<>>)),
                 <<ArduinoStartMarker, 0, ArduinoEndMarker>>}

NextWrite ==
    \/ \E c \in Callers : \E frame \in SendFrames : frame.ID = c /\ SendCall(c, frame)
    \/ \E c \in Callers : SendEnqueue(c)
    \/ \E c \in Callers : SendAckTimeout(c)
    \/ \E c \in Callers : SendBackoff(c)
    \/ \E wire \in InboundWires : DeviceFrame(wire)
    \/ ReadTimeout \/ ReadStart \/ ReadData \/ ReadEnd \/ ReadSend
    \/ ValidateFrame \/ BroadcastReturn
    \/ WriteFrame

SpecWrite == InitSend /\ [][NextWrite]_vars

RECURSIVE Flatten(_)
Flatten(seqs) == IF seqs = <<>> THEN <<>> ELSE Head(seqs) \o Flatten(Tail(seqs))

\* C9: the bytes written to the port, followed by the buffers that wait in
\* writeChan, are the buffers in the order of their enqueueing, each whole,
\* whoever enqueued them.
C9_WriteOrder == written \o Flatten(writeChan) = Flatten(enqLog)

\* frames of two callers and a response of frame validation between them
\* have all been written
C9_Witness ==
    /\ writeChan = <<>>
    /\ \E i \in 1..Len(enqLog), j \in 1..Len(enqLog), k \in 1..Len(enqLog) :
          /\ i < j /\ j < k
          /\ enqLog[i] = createFrameBytes(Frame(2, 0, <<>>))
          /\ enqLog[j] = <<ArduinoACK>>
          /\ enqLog[k] = createFrameBytes(Frame(1, 0, <<>>))


(***************************************************************************)
(* SpecLink: the port delivers a script, a few chunks on end: well-formed  *)
(* frames, frames that validation must reject, frames with a broken        *)
(* escape, answers outside a frame.  The reader, frame validation and the  *)
(* writer run at their own pace.                                           *)
(***************************************************************************)
Chunk(tag, bytes, frames, rejects) ==
    [tag |-> tag, bytes |-> bytes, frames |-> frames, rejects |-> rejects]

ValidChunk(f) == Chunk("valid", createFrameBytes(f), <<f>>, 0)

\* a frame around body, which validation must reject
BadChunk(tag, body) == Chunk(tag, StuffBody(body), <<>>, 1)

\* more answers than ackChan holds
AckBurst == [i \in 1..(ChanCap + 1) |-> IF i % 2 = 1 THEN ArduinoACK ELSE ArduinoNACK]

MalformedTags == {"crc", "long", "short", "tiny", "dlc"}

EscapeTags == {"badesc", "escack", "escgap"}

Chunks ==
    {ValidChunk(Frame(291, 3, <<1, 2, 3>>)),
     ValidChunk(Frame(0, 0, <<>>)),
     ValidChunk(Frame(6, 2, <<ArduinoNACK, ArduinoStartMarker>>)),
     BadChunk("crc", <<0, 0, 0, 1>>),
     BadChunk("long", <<0, 0, 0, 0, 0>>),
     BadChunk("short", <<0, 0, 1, 0>>),
     BadChunk("tiny", <<0>>),
     BadChunk("dlc", <<0, 0, 9, 0>>),
     Chunk("badesc", <<ArduinoStartMarker, 0, ArduinoEscapeChar, 0, ArduinoEndMarker>>, <<>>, 0),
     Chunk("escack", <<ArduinoStartMarker, 0, ArduinoEscapeChar, ArduinoACK, ArduinoEndMarker>>,
           <<>>, 0),
     Chunk("escgap", <<ArduinoStartMarker, 0, 0, 0, ArduinoEscapeChar, GAP, 0, ArduinoEndMarker>>,
           <<>>, 0),
     Chunk("acks", AckBurst, <<>>, 0)}

RECURSIVE Script(_)
Script(cs) ==
    IF cs = <<>>
    THEN [kind |-> "script", frame |-> NoFrame, body |-> <<>>, wire |-> <<>>,
          tags |-> <<>>, valid |-> <<>>, rejects |-> 0]
    ELSE LET rest == Script(Tail(cs)) c == Head(cs)
         IN  [rest EXCEPT !.wire = c.bytes \o @, !.tags = <<c.tag>> \o @,
                          !.valid = c.frames \o @, !.rejects = c.rejects + @]

LinkInputs == {Script(cs) : cs \in SeqsUpTo(Chunks, MaxChunks) \ {<<>>}}

InitLink ==
    \E input \in LinkInputs :
        /\ src = input
        /\ InitDriver(input.wire)
        /\ IdleEcu

NextLink ==
    \/ ReadTimeout \/ ReadAckByte \/ ReadIgnored
    \/ ReadStart \/ ReadData \/ ReadEnd \/ ReadSend
    \/ ReadEscapeValid \/ ReadEscapeInvalid \/ ReadEscapeTimeout
    \/ ValidateFrame \/ BroadcastReturn
    \/ WriteFrame

SpecLink == InitLink /\ [][NextLink]_vars

TagsIn(S) == src.kind = "script" /\ \A i \in 1..Len(src.tags) : src.tags[i] \in S

Responses(b) == Cardinality({i \in 1..Len(enqLog) : enqLog[i] = <<b>>})

\* C5: of a script of well-formed frames, each frame is published once, in
\* order, and one ACK is enqueued for each.
C5_AckAndPublishOnce ==
    TagsIn({"valid"}) =>
        /\ IsPrefix(bcastLog, src.valid)
        /\ LinkQuiet => (bcastLog = src.valid /\ Responses(ArduinoACK) = Len(src.valid))

\* C6: of a script of well-formed frames and of frames that fail validation,
\* only the well-formed ones are published, all of them, and one NACK is
\* enqueued for each of the others.
C6_MalformedRejected ==
    TagsIn({"valid"} \cup MalformedTags) =>
        /\ IsPrefix(bcastLog, src.valid)
        /\ LinkQuiet => (bcastLog = src.valid /\ Responses(ArduinoNACK) = src.rejects)

\* C7: a frame in which the escape character is followed by a byte that is
\* no tag is handed to nobody, and one NACK is enqueued for it.
C7_InvalidEscapeDiscards ==
    (TagsIn(EscapeTags) /\ Len(src.tags) = 1) =>
        /\ FramesHanded = 0
        /\ bcastLog = <<>>
        /\ LinkQuiet => enqLog = <<<<ArduinoNACK>>>>


AckBytes == {ArduinoACK, ArduinoNACK}

\* the step offers b to ackChan, which drops it when full, and leaves the
\* frame buffer alone
OffersAck(b) ==
    /\ ackChan' = IF ChanFull(ackChan) THEN ackChan ELSE Append(ackChan, ackByteToBool(b))
    /\ buf' = buf /\ heap' = heap /\ readChan' = readChan

\* the step appends b to the frame buffer and leaves ackChan alone
AppendsToBody(b) ==
    /\ SliceBytes(buf)' = Append(SliceBytes(buf), b)
    /\ inFrame'
    /\ ackChan' = ackChan

\* the step discards the frame in progress and leaves ackChan alone
DiscardsFrame ==
    /\ ~inFrame' /\ buf'.len = 0
    /\ readChan' = readChan
    /\ ackChan' = ackChan

\* the positions in rx of the bytes the step reads
ReadByStep == 1..(Len(rx) - Len(rx'))

\* C8 as stated: an ACK or NACK byte read outside a frame is offered to
\* ackChan and is no frame data; one read inside a frame is appended to the
\* frame body and is not offered.
C8_AcksDemultiplexed ==
    [][\A i \in ReadByStep :
          rx[i] \in AckBytes =>
              IF inFrame THEN AppendsToBody(rx[i]) ELSE OffersAck(rx[i])]_vars

\* C8: an ACK or NACK byte read outside a frame is offered to ackChan, which
\* drops it when full, and is no frame data; one read inside a frame is never
\* offered: it is appended to the frame body, unless it is the byte read
\* after the escape character, where it is an invalid tag and the frame in
\* progress is discarded.
C8_AcksDemultiplexedButEscape ==
    [][\A i \in ReadByStep :
          rx[i] \in AckBytes =>
              IF ~inFrame THEN OffersAck(rx[i])
              ELSE IF i = 1 THEN AppendsToBody(rx[i])
              ELSE rx[1] = ArduinoEscapeChar /\ DiscardsFrame]_vars

\* answers outside a frame were offered, and one dropped, and then a frame
\* with a NACK byte in its data was assembled and published
C8_Witness ==
    /\ src.kind = "script"
    /\ src.tags = <<"acks", "valid">>
    /\ \E i \in 1..Len(rdLog) : rdLog[i] = "ackDropped"
    /\ Len(ackChan) = ChanCap
    /\ bcastLog = <<Frame(6, 2, <<ArduinoNACK, ArduinoStartMarker>>)>>


(***************************************************************************)
(* SpecTpSend: one Message.Send call of a request, while the peer's frames *)
(* are published.  Send holds no subscription while it is in               *)
(* sendConsecutiveFrames, so frames published then reach nothing of it and *)
(* are left out.                                                           *)
(***************************************************************************)
\* n payload bytes, all different from their neighbours
Payload(n) == [i \in 1..n |-> ((i * 37) + 5) % 256]

\* raw lengths 1, 2, 3, 7, 8, 13, 20, 127 (the sequence number wraps) and 300
SendMessages ==
    {TesterPresentMessage,
     Request(TesterID, 16, 3, <<>>),
     Request(TesterID, 34, Nil, <<241, 144>>)}
    \cup {Request(TesterID, 54, 1, Payload(n)) : n \in {5, 6, 11, 18, 125, 298}}

\* a flow control with STmin 0 and one with STmin 5, a single frame, a
\* consecutive frame, all from the ECU
SendPeerFrames ==
    {Frame(ECUID, 3, <<48, 0, 0>>),
     Frame(ECUID, 3, <<48, 0, 5>>),
     Frame(ECUID, 2, <<1, 126>>),
     Frame(ECUID, 2, <<33, 7>>)}

InitTpSend ==
    /\ src = NoSrc
    /\ InitDriver(<<>>)
    /\ IdleEcu

NextTpSend ==
    \/ \E m \in SendMessages, ok \in BOOLEAN : MessageSend(m, ok)
    \/ WaitFCSubscribe
    \/ WaitFCReceive
    \/ WaitFCTimeout
    \/ \E ok \in BOOLEAN : SendConsecutive(ok)
    \/ \E frame \in SendPeerFrames :
          Published < MaxPublished /\ tx.pc # "cf" /\ PeerFrame(frame)

SpecTpSend == InitTpSend /\ [][NextTpSend]_vars

\* the frames handed to d.SendFrame by Message.Send (by = "send") or by
\* sendFlowControlFrame (by = "fc"), in order
RECURSIVE EmittedIn(_, _)
EmittedIn(log, by) ==
    IF log = <<>> THEN <<>>
    ELSE (IF Head(log).kind = by THEN <<Head(log).frame>> ELSE <<>>)
         \o EmittedIn(Tail(log), by)

Emitted(by) == EmittedIn(evLog, by)

\* C12: for a payload of length L >= 8 the first frame sent has DLC 8,
\* Data[0] = 0x10 | ((L >> 8) & 0x0F), Data[1] = L & 0xFF and Data[2..7] =
\* the first 6 payload bytes; for L = 20, Data[0] = 0x10 and Data[1] = 0x14.
C12_FirstFrameLayout ==
    (tx.pc # "idle" /\ Len(tx.raw) >= 8) =>
        LET first == Emitted("send")[1]
            L == Len(tx.raw)
        IN  /\ first.DLC = 8
            /\ first.Data[1] = 16 + ((L \div 256) % 16)
            /\ first.Data[2] = L % 256
            /\ SubSeq(first.Data, 3, 8) = SubSeq(tx.raw, 1, 6)
            /\ L = 20 => (first.Data[1] = 16 /\ first.Data[2] = 20)


\* the positions of evLog at which Message.Send handed a frame to the driver
Sends == {i \in 1..Len(evLog) : evLog[i].kind = "send"}

\* the positions at which a flow control was published
FlowControls ==
    {i \in 1..Len(evLog) :
        evLog[i].kind = "pub" /\ pciFrameType(evLog[i].frame) = PCIFrameTypeFC}

\* C14: in a multi-frame send no consecutive frame is emitted until a flow
\* control (PCI upper nibble 3) has been received after the first frame was
\* sent; a wait that gets none can end by its timeout, and a send that ends
\* with the FC-timeout error has emitted no consecutive frame.
C14_FlowControlGatesConsecutive ==
    /\ LET consecutive == {i \in Sends : pciFrameType(evLog[i].frame) = PCIFrameTypeCF}
       IN  consecutive # {} =>
              \E j \in FlowControls :
                  /\ \E k \in Sends : k < j
                  /\ \A i \in consecutive : j < i
    /\ tx.pc = "fc" => ENABLED WaitFCTimeout
    /\ (tx.pc \in {"ff", "fc"} \/ tx.result = "errorFCFrameTimeout") =>
          Cardinality(Sends) = 1

\* a send got frames that are no flow control, then a flow control, and
\* sent its consecutive frames
C14_Witness ==
    /\ tx.pc = "done" /\ tx.result = "nil" /\ Len(tx.raw) >= 8
    /\ \E i \in 1..Len(evLog) :
          /\ evLog[i].kind = "pub"
          /\ pciFrameType(evLog[i].frame) # PCIFrameTypeFC
          /\ \E k \in Sends, j \in FlowControls : k < i /\ i < j

\* the smaller of two numbers
Min(a, b) == IF a < b THEN a ELSE b

\* C15: the consecutive frames of a multi-frame send of L bytes carry the
\* bytes 6..L-1 in order, 7 per frame except possibly the last, with
\* Data[0] = 0x20 | seq, seq being 1 for the first consecutive frame and
\* increasing by 1 modulo 16, and DLC = 1 + the number of bytes carried; a
\* send that succeeded has emitted all of them.
C15_ConsecutiveFrameLayout ==
    Len(tx.raw) >= 8 =>
        LET frames == Tail(Emitted("send"))
            L == Len(tx.raw)
        IN  /\ \A n \in 1..Len(frames) :
                  LET from == 6 + (7 * (n - 1))
                      upto == Min(L, from + 7)
                  IN  /\ from < L
                      /\ frames[n].ID = tx.m.SenderID
                      /\ frames[n].Data[1] = 32 + (n % 16)
                      /\ frames[n].DLC = 1 + (upto - from)
                      /\ SubSeq(frames[n].Data, 2, frames[n].DLC)
                            = SubSeq(tx.raw, from + 1, upto)
            /\ tx.result = "nil" => 6 + (7 * Len(frames)) >= L

\* a send whose sequence number went through 15, 0 and 1 and whose last
\* frame is shorter than 7 bytes
C15_Witness ==
    /\ tx.result = "nil"
    /\ Len(Emitted("send")) > 18
    /\ (Len(tx.raw) - 6) % 7 # 0

\* C16: sending a payload of n <= 7 bytes emits exactly one frame, with the
\* sender's ID, DLC = n + 1, Data[0] = n and Data[1..n] = the payload, and
\* the call returns without waiting for a flow control.
C16_SingleFrameLayout ==
    (tx.pc # "idle" /\ Len(tx.raw) <= 7) =>
        LET n == Len(tx.raw)
            frames == Emitted("send")
        IN  /\ tx.pc = "done"
            /\ Len(frames) = 1
            /\ frames[1].ID = tx.m.SenderID
            /\ frames[1].DLC = n + 1
            /\ frames[1].Data[1] = n
            /\ SubSeq(frames[1].Data, 2, n + 1) = tx.raw
            /\ ~ENABLED WaitFCSubscribe /\ ~ENABLED WaitFCReceive
            /\ ~ENABLED WaitFCTimeout

\* a payload of 7 bytes was sent with success, and a flow control published
\* afterwards
C16_Witness ==
    /\ tx.pc = "done" /\ tx.result = "nil" /\ Len(tx.raw) = 7
    /\ \E j \in FlowControls : \E k \in Sends : k < j

\* C17 (as stated): TesterPresent produces exactly one frame with ID 0x7E0,
\* DLC 2 and Data beginning [0x02, 0x3E].
C17_TesterPresentFrame ==
    (tx.pc # "idle" /\ tx.m = TesterPresentMessage) =>
        /\ Len(Emitted("send")) = 1
        /\ Emitted("send")[1].ID = 2016
        /\ Emitted("send")[1].DLC = 2
        /\ SubSeq(Emitted("send")[1].Data, 1, 2) = <<2, 62>>

\* C17 (amended): TesterPresent produces exactly one frame with ID 0x7E0,
\* DLC 2 and Data beginning [0x01, 0x3E]: the PCI is the length of the
\* payload, the one byte 0x3E.
C17_TesterPresentFrameLengthOne ==
    (tx.pc # "idle" /\ tx.m = TesterPresentMessage) =>
        /\ tx.pc = "done"
        /\ Len(Emitted("send")) = 1
        /\ Emitted("send")[1].ID = 2016
        /\ Emitted("send")[1].DLC = 2
        /\ SubSeq(Emitted("send")[1].Data, 1, 2) = <<1, 62>>

\* TesterPresent was sent with success
C17_Witness ==
    tx.pc = "done" /\ tx.result = "nil" /\ tx.m = TesterPresentMessage

(***************************************************************************)
(* SpecLoop: a Message.Send call and a Read call on a loopback bus: every  *)
(* frame Send hands to the driver comes back and is published, in order    *)
(* and without loss, and the flow control Send waits for is supplied.  No  *)
(* frame that Send emits has the type nibble 1, so Read never enters       *)
(* receiveMultiFrame here.                                                 *)
(***************************************************************************)
\* the frames of the sender that have come back
Looped == Cardinality({i \in 1..Len(evLog) :
                          evLog[i].kind = "pub" /\ evLog[i].frame.ID = TesterID})

\* an open subscription has no room for one more frame
SomeQueueFull ==
    \/ FcSubscribed /\ ChanFull(fcChan)
    \/ ReadSubscribed /\ ChanFull(rdChan)
    \/ MultiSubscribed /\ ChanFull(mfChan)

\* the next frame sent comes back, once Read is listening
Loopback ==
    /\ rd.pc # "idle"
    /\ Looped < Len(Emitted("send"))
    /\ ~SomeQueueFull
    /\ Publish(Emitted("send")[Looped + 1])
    /\ UNCHANGED <<tx, rd, codec>>
    /\ UNCHANGED <<appVars, linkVars, bcastVars, sendVars, histVars, ecuVars>>

\* the peer's flow control, when Send waits for it
SupplyFlowControl ==
    /\ tx.pc = "fc"
    /\ \A i \in 1..Len(fcChan) : pciFrameType(fcChan[i]) # PCIFrameTypeFC
    /\ ~SomeQueueFull
    /\ Publish(Frame(ECUID, 3, <<48, 0, 0>>))
    /\ UNCHANGED <<tx, rd, codec>>
    /\ UNCHANGED <<appVars, linkVars, bcastVars, sendVars, histVars, ecuVars>>

\* the messages of raw length 1, 2, 3, 7, 8, 13 and 20
LoopMessages == {m \in SendMessages : Len(ToRawData(m)) <= 20}

InitLoop ==
    /\ src = NoSrc
    /\ InitDriver(<<>>)
    /\ IdleEcu

NextLoop ==
    \/ ReadCall
    \/ \E m \in LoopMessages : MessageSend(m, TRUE)
    \/ WaitFCSubscribe
    \/ SupplyFlowControl
    \/ WaitFCReceive
    \/ SendConsecutive(TRUE)
    \/ Loopback
    \/ ReadReceive

SpecLoop == InitLoop /\ [][NextLoop]_vars

\* C13: the frames emitted by the ISO-TP send of a payload, fed in order to
\* the ISO-TP read on a loopback bus, reassemble to exactly that payload.
C13_LoopbackRoundTrip ==
    rd.pc = "done" => (rd.result = "nil" /\ rd.data = tx.raw)


(***************************************************************************)
(* SpecTpRead: one Read call, while the peer's frames are published:       *)
(* either any frames of ReadPeerFrames, or the frames of one long message  *)
(* in order.                                                               *)
(***************************************************************************)
\* a first frame as the peer sends it: type 1 in the upper nibble
PeerFirstFrame(id, data) ==
    Frame(id, 8, <<16 + ((Len(data) \div 256) % 16), Len(data) % 256>>
                 \o SubSeq(data, 1, 6))

\* the n-th consecutive frame of data, carrying the sequence number seq
PeerConsecutiveFrame(id, data, n, seq) ==
    ConsecutiveFrame(id, data, 6 + (7 * (n - 1)), seq)

\* a single frame, the first frame and the two consecutive frames of a
\* message of 20 bytes, the first consecutive frame from another sender, and
\* a flow control
ReadPeerFrames ==
    {Frame(ECUID, 3, <<2, 126, 0>>),
     PeerFirstFrame(ECUID, Payload(20)),
     PeerConsecutiveFrame(ECUID, Payload(20), 1, 1),
     PeerConsecutiveFrame(ECUID, Payload(20), 2, 2),
     PeerConsecutiveFrame(ECUID + 1, Payload(20), 1, 1),
     Frame(ECUID, 3, <<48, 0, 0>>)}

\* a message of 127 bytes: 18 consecutive frames, numbered 1..15, 0, 1, 2,
\* or, when the peer skips the 0, 1..15, 1, 2, 3
PeerLongFrames(skip) ==
    <<PeerFirstFrame(ECUID, Payload(127))>>
    \o [n \in 1..18 |->
          PeerConsecutiveFrame(ECUID, Payload(127), n,
                               IF skip /\ n >= 16 THEN (n + 1) % 16 ELSE n % 16)]

PeerScript == PeerLongFrames(src.kind = "longSkip")

\* the next frame of the long message arrives, Read listening and its queue
\* having room
PeerScripted ==
    /\ src.kind \in {"long", "longSkip"}
    /\ rd.pc \in {"wait", "multi"}
    /\ Published < Len(PeerScript)
    /\ ~(MultiSubscribed /\ ChanFull(mfChan))
    /\ PeerFrame(PeerScript[Published + 1])

InitTpRead ==
    /\ \E kind \in {"free", "long", "longSkip"} : src = [NoSrc EXCEPT !.kind = kind]
    /\ InitDriver(<<>>)
    /\ IdleEcu

NextTpRead ==
    \/ ReadCall
    \/ ReadReceive
    \/ \E ok \in BOOLEAN : SendFlowControl(ok)
    \/ MultiReceive
    \/ MultiTimeout
    \/ \E frame \in ReadPeerFrames :
          src.kind = "free" /\ Published < MaxReceived /\ PeerFrame(frame)
    \/ PeerScripted

SpecTpRead == InitTpRead /\ [][NextTpRead]_vars

\* C18: on a First Frame the reader sends exactly one flow control, with ID
\* 0x7E0 and Data[0..2] = [0x30, 0x00, 0x00], before it accepts any
\* consecutive frame of that message; it sends none when the message is a
\* Single Frame.
C18_OneFlowControlBeforeConsecutive ==
    LET sent == Emitted("fc")
    IN  /\ Len(sent) <= 1
        /\ \A i \in 1..Len(sent) :
              /\ sent[i].ID = 2016
              /\ SubSeq(sent[i].Data, 1, 3) = <<48, 0, 0>>
        /\ rd.pc \in {"idle", "wait", "fcSend"} => sent = <<>>
        /\ rd.pc = "fcSend" => rd.bytesReceived = 6
        /\ rd.pc = "multi" => Len(sent) = 1
        /\ rd.bytesReceived > 6 => Len(sent) = 1
        /\ rd.pc = "done" =>
              (Len(sent) = 1 <=> pciFrameType(rd.first) = PCIFrameTypeFF)

\* a message of 20 bytes was received whole after one flow control
C18_Witness ==
    /\ rd.pc = "done" /\ rd.result = "nil"
    /\ rd.data = Payload(20)
    /\ Len(Emitted("fc")) = 1


\* the sequence number the reader is due next: 1 after the first frame, then
\* one more, modulo 16, for each consecutive frame taken
ExpectedIndex == (((rd.bytesReceived - 6) \div 7) + 1) % 16

\* a step in which receiveMultiFrame takes the frame at the head of its
\* channel
TakesFrame ==
    /\ rd.pc = "multi" /\ mfChan # <<>>
    /\ evLog' = evLog
    /\ rd'.result # "errorMultiFrameReadTimeout"

\* C19: during multi-frame reception a consecutive frame from the peer
\* whose sequence nibble is not the expected one (1 first, then +1 modulo
\* 16) ends the read with 'unexpected frame index'; a frame with another ID
\* or with a PCI that is not a consecutive frame's is skipped and changes
\* neither the expected sequence number nor the bytes reassembled; a
\* consecutive frame with the expected number is taken.
C19_SequenceChecked ==
    [][TakesFrame =>
        LET frame == Head(mfChan)
        IN  IF frame.ID # rd.first.ID \/ frame.Data[1] \div 16 # 2
            THEN rd' = rd
            ELSE IF frame.Data[1] % 16 # ExpectedIndex
            THEN rd'.pc = "done" /\ rd'.result = "errorUnexpectedFrameIndex"
            ELSE /\ rd'.result # "errorUnexpectedFrameIndex"
                 /\ rd'.bytesReceived > rd.bytesReceived
                 /\ rd'.frameIndex = (ExpectedIndex + 1) % 16]_vars

\* the read failed on the frame that should have carried the number 0, after
\* 15 consecutive frames were taken
C19_Witness ==
    /\ rd.pc = "done" /\ rd.result = "errorUnexpectedFrameIndex"
    /\ rd.bytesReceived = 6 + (7 * 15)


(***************************************************************************)
(* SpecMsg: a request is encoded with ToRawData and the bytes are decoded  *)
(* with RawDataToMessage.                                                  *)
(***************************************************************************)
\* requests from the tester and from the ECU's ID, for TesterPresent, 0x1A
\* and 0x27, without subfunction and with 0x00, 0x01, 0x3E, with up to two
\* data bytes
RequestMessages ==
    {Request(id, service, subfunction, data) :
        id \in {TesterID, ECUID},
        service \in {ServiceTesterPresent, 26, 39},
        subfunction \in {Nil, 0, 1, 62},
        data \in SeqsUpTo({0, 127}, 2)}

\* m.ToRawData()
EncodeMessage(m) ==
    /\ codec.pc = "idle"
    /\ codec' = [codec EXCEPT !.pc = "encoded", !.m = m, !.raw = ToRawData(m)]
    /\ UNCHANGED <<tx, fcChan, rd, rdChan, mfChan, evLog>>
    /\ UNCHANGED <<appVars, linkVars, bcastVars, sendVars, histVars, ecuVars>>

\* RawDataToMessage(m.SenderID, rawData, isResponse)
DecodeMessage(isResponse) ==
    /\ codec.pc = "encoded"
    /\ codec' = [codec EXCEPT
                    !.pc = "decoded",
                    !.out = RawDataToMessage(codec.m.SenderID, codec.raw, isResponse)]
    /\ UNCHANGED <<tx, fcChan, rd, rdChan, mfChan, evLog>>
    /\ UNCHANGED <<appVars, linkVars, bcastVars, sendVars, histVars, ecuVars>>

InitMsg ==
    /\ src = NoSrc
    /\ InitDriver(<<>>)
    /\ IdleEcu

NextMsg ==
    \/ \E m \in RequestMessages : EncodeMessage(m)
    \/ DecodeMessage(FALSE)

SpecMsg == InitMsg /\ [][NextMsg]_vars

\* C20: for every request m, RawDataToMessage(m.SenderID, m.ToRawData(),
\* false) has the same sender ID, service ID, subfunction (present or
\* absent, same value) and payload as m.
C20_RequestRoundTrip ==
    codec.pc = "decoded" =>
        /\ codec.out.SenderID = codec.m.SenderID
        /\ codec.out.ServiceID = codec.m.ServiceID
        /\ codec.out.Subfunction = codec.m.Subfunction
        /\ codec.out.Data = codec.m.Data


(***************************************************************************)
(* SpecMsgResp: a response is encoded with ToRawData and the bytes are     *)
(* decoded with RawDataToMessage as a response.                            *)
(***************************************************************************)
\* positive responses from the ECU for 0x3E, 0x1A and 0x27, without
\* subfunction and with 0x00, 0x01, 0x7F, with up to two data bytes
PositiveResponses ==
    {Message(ECUID, service, subfunction, Nil, data, TRUE, 1) :
        service \in {ServiceTesterPresent, 26, 39},
        subfunction \in {Nil, 0, 1, 127},
        data \in SeqsUpTo({0, 1, 127}, 2)}

\* negative responses from the ECU for the same services, with the NRC 0x12,
\* 0x33 or 0x7F, without and with a subfunction, with up to two data bytes
NegativeResponses ==
    {Message(ECUID, service, subfunction, nrc, data, TRUE, 0) :
        service \in {ServiceTesterPresent, 26, 39},
        subfunction \in {Nil, 1},
        nrc \in {18, 51, 127},
        data \in SeqsUpTo({0, 1, 127}, 2)}

NextMsgResp ==
    \/ \E m \in PositiveResponses \cup NegativeResponses : EncodeMessage(m)
    \/ DecodeMessage(TRUE)

SpecMsgResp == InitMsg /\ [][NextMsgResp]_vars

\* C21: for every positive response m, ToRawData starts with the service ID
\* + 0x40, and decoding the bytes as a response gives a positive message
\* with the same service ID, subfunction (present or absent, same value) and
\* payload as m.
C21_PositiveRoundTrip ==
    (codec.pc # "idle" /\ codec.m.IsPositive = 1) =>
        /\ codec.raw[1] = codec.m.ServiceID + 64
        /\ codec.pc = "decoded" =>
              /\ codec.out.IsPositive = 1
              /\ codec.out.ServiceID = codec.m.ServiceID
              /\ codec.out.Subfunction = codec.m.Subfunction
              /\ codec.out.Data = codec.m.Data

\* C22: a negative response with service ID s and NRC n is encoded as 0x7F,
\* s, n and the payload, and decoding that as a response gives polarity
\* negative, service ID s, NRC n and no subfunction, with the payload; the
\* bytes 7F 1A 12 decode with an empty payload.
C22_NegativeRoundTrip ==
    (codec.pc # "idle" /\ codec.m.IsPositive = 0) =>
        /\ codec.raw = <<127, codec.m.ServiceID, codec.m.NRC>> \o codec.m.Data
        /\ codec.pc = "decoded" =>
              /\ codec.out.IsResponse
              /\ codec.out.IsPositive = 0
              /\ codec.out.ServiceID = codec.m.ServiceID
              /\ codec.out.NRC = codec.m.NRC
              /\ codec.out.Subfunction = Nil
              /\ codec.out.Data = codec.m.Data
              /\ codec.raw = <<127, 26, 18>> => codec.out.Data = <<>>

\* the bytes 7F 1A 12 were decoded
C22_Witness ==
    codec.pc = "decoded" /\ codec.raw = <<127, 26, 18>>


(***************************************************************************)
(* SpecReadMsg: a registered and started handler, one readMessage call     *)
(* with a filter, the messages of the ECU that the read loop broadcasts,   *)
(* and a cancellation or a Cleanup that may come at any time.              *)
(***************************************************************************)
\* a positive TesterPresent response (no subfunction), positive ReadId
\* responses for two subfunctions, a negative response, and a message without
\* polarity
EcuMessages ==
    {Message(ECUID, ServiceTesterPresent, Nil, Nil, <<>>, TRUE, 1),
     Message(ECUID, ServiceReadIdK01, SubfunctionReadECUHardwareIdK01, Nil, <<>>, TRUE, 1),
     Message(ECUID, ServiceReadIdK01, SubfunctionReadECUSoftwareIdK01, Nil, <<>>, TRUE, 1),
     Message(ECUID, ServiceReadIdK01, Nil, 18, <<>>, TRUE, 0),
     Message(ECUID, ServiceReadIdK01, SubfunctionReadECUHardwareIdK01, Nil, <<>>, FALSE, Nil)}

ServiceFilters == {Nil, ServiceReadIdK01}
SubfunctionFilters == {Nil, SubfunctionReadECUHardwareIdK01}

InitReadMsg ==
    /\ src = NoSrc
    /\ InitDriver(<<>>)
    /\ k01 = Start(NewK01) /\ mb = NewUDSMessageBroadcaster /\ registry = TRUE
    /\ rm = IdleReadMessage /\ scan = IdleScan /\ cu = IdleCleanup /\ kg = IdleKey
    /\ re = IdleReadErrors /\ fq = {}

NextReadMsg ==
    \/ \E serviceId \in ServiceFilters, subfunction \in SubfunctionFilters :
          ReadMessageCall(serviceId, subfunction)
    \/ ReadMessageSubscribe \/ ReadMessageReceive \/ ReadMessageReceiveClosed
    \/ ReadMessageTimeout \/ ReadMessageCancelled \/ ReadMessageUnsubscribe
    \/ \E message \in EcuMessages :
          k01.broadcasts < MaxMessages /\ ProcessRead(message)
    \/ ProcessBroadcast \/ ProcessExit
    \/ TesterPresentLoopExit
    \/ CancelCtx
    \/ CleanupCall(1) \/ CleanupCAS(1) \/ CleanupCancel(1)
    \/ CleanupBroadcaster(1) \/ CleanupWait(1)

SpecReadMsg == InitReadMsg /\ [][NextReadMsg]_vars

\* what the filters ask of a message
MatchesFilters(message, serviceId, subfunction) ==
    /\ serviceId # Nil => message.ServiceID = serviceId
    /\ message.IsPositive # Nil
    /\ \/ message.IsPositive = 0
       \/ /\ message.IsPositive = 1
          /\ subfunction # Nil =>
                (message.Subfunction # Nil /\ message.Subfunction = subfunction)

\* C23: the message readMessage returns is the first one delivered to its
\* subscription that passes the service-ID filter when given, has its polarity
\* set, and is negative or is positive with the subfunction the filter asks
\* for when given; the messages before it were skipped, and those delivered
\* after it are still in the queue.
C23_FirstMatchReturned ==
    (rm.pc \in {"defer", "returned"} /\ rm.err = "none") =>
        LET delivered == mb.delivered[rm.messageChan]
            n == Len(rm.taken)
        IN  /\ n >= 1
            /\ IsPrefix(rm.taken, delivered)
            /\ rm.message = rm.taken[n]
            /\ MatchesFilters(rm.message, rm.serviceId, rm.subfunction)
            /\ \A i \in 1..(n - 1) :
                  ~MatchesFilters(rm.taken[i], rm.serviceId, rm.subfunction)
            /\ mb.queue[rm.messageChan] = SubSeq(delivered, n + 1, Len(delivered))

\* a call returned the second message delivered, with a third one left queued
C23_Witness ==
    /\ rm.pc = "returned" /\ rm.err = "none"
    /\ rm.subfunction # Nil
    /\ Len(rm.taken) = 2
    /\ Len(mb.delivered[rm.messageChan]) = 3

\* C24: when readMessage has returned - with a message, with the timeout's
\* error, or with the cancellation's - the queue it subscribed is no longer in
\* the broadcaster's map and has been closed.
C24_UnsubscribedOnReturn ==
    (rm.pc = "returned" /\ rm.messageChan # Nil) =>
        /\ rm.messageChan \notin mb.subscribers
        /\ mb.closed[rm.messageChan] = 1

\* a call that skipped a message returned on the timeout
C24_Witness ==
    /\ rm.pc = "returned" /\ rm.messageChan # Nil
    /\ rm.err = "DeadlineExceeded"
    /\ rm.taken # <<>>


(***************************************************************************)
(* SpecScan: one ScanK01 call.  The ECU answers a request at most once,    *)
(* with a response that fits the exchange or not, or stays silent; a send  *)
(* may fail and the caller's context may be cancelled at any time.         *)
(***************************************************************************)
\* the payloads of an ECU that is on the lists, and one that is on none
GoodData ==
    <<<<54, 49, 51, 46, 52, 49, 46, 48, 51, 49, 46, 51, 48, 48>>,
      <<75, 77, 50, 65, 48, 69, 85, 49, 55, 72, 48, 54, 51, 49>>,
      <<0, 70, 69, 47, 70, 83, 32, 55, 48, 49>>,
      <<86, 66, 75>>,
      <<75, 84, 77>>>>
BadData == <<54, 49, 51>>

ScanAnswers(step) ==
    IF step = 0
    THEN {Message(ECUID, ServiceTesterPresent, Nil, Nil, <<>>, TRUE, 1)}
    ELSE {Message(ECUID, ServiceReadIdK01, ScanSubfunctions[step], Nil, GoodData[step], TRUE, 1),
          Message(ECUID, ServiceReadIdK01, ScanSubfunctions[step], Nil, BadData, TRUE, 1),
          Message(ECUID, ServiceReadIdK01, Nil, 18, <<>>, TRUE, 0)}

InitScan ==
    /\ src = NoSrc
    /\ InitDriver(<<>>)
    /\ IdleEcu

NextScan ==
    \/ ScanCall
    \/ \E ok \in BOOLEAN : ScanSend(ok)
    \/ ScanRead
    \/ ScanDeferCleanup
    \/ ScanDeferDeregister
    \/ ReadMessageSubscribe \/ ReadMessageReceive
    \/ ReadMessageTimeout \/ ReadMessageCancelled \/ ReadMessageUnsubscribe
    \/ \E message \in ScanAnswers(scan.step) :
          k01.broadcasts < scan.sends /\ ProcessRead(message)
    \/ ProcessBroadcast \/ ProcessExit
    \/ TesterPresentLoopSend \/ TesterPresentLoopExit
    \/ CancelCtx
    \/ CleanupCAS(1) \/ CleanupCancel(1) \/ CleanupBroadcaster(1) \/ CleanupWait(1)

SpecScan == InitScan /\ [][NextScan]_vars

\* the list of a string's allow-list check, by position in scan.resp
AllowList(i) ==
    CASE i = 2 -> CompatibleECUHardwareIdsK01
      [] i = 3 -> CompatibleECUSoftwareIdsK01
      [] i = 4 -> CompatibleModelsK01

\* C25: ScanK01 returns a list with an ECU only when a TesterPresent response
\* was read and the ASCII-decoded hardware ID, software ID and model responses
\* are each in their allow-list; once one of the three is not, the scan has
\* stopped with the incompatibility error and its list holds no ECU.
C25_OnlyCompatibleAdded ==
    /\ scan.ecus > 0 =>
          /\ scan.ecus = 1
          /\ Len(scan.resp) = 6
          /\ scan.resp[1].ServiceID = ServiceTesterPresent
          /\ scan.resp[1].IsPositive # Nil
          /\ \A i \in 2..4 : ASCIIRepresentation(scan.resp[i]) \in AllowList(i)
    /\ \A i \in 2..4 :
          (Len(scan.resp) >= i /\ ASCIIRepresentation(scan.resp[i]) \notin AllowList(i)) =>
              /\ Len(scan.resp) = i
              /\ scan.pc \in {"defer", "cleanup", "returned"}
              /\ scan.err = "incompatible"
              /\ scan.ecus = 0

\* a scan returned with an ECU in its list
C25_Witness ==
    /\ scan.pc = "returned"
    /\ scan.ecus = 1

\* C26: when ScanK01 has returned after Register and Start, whatever the
\* outcome, the provisional handler's context is cancelled, its two loops have
\* terminated, its broadcaster has no subscriber, it is not marked running,
\* and the ECU service entry is deregistered.
C26_ScanTearsDown ==
    (scan.pc = "returned" /\ scan.started) =>
        /\ k01.cancelled
        /\ k01.testerPresentLoop = "done"
        /\ k01.processAndBroadcastUDSMessages = "done"
        /\ k01.wg = 0
        /\ mb.subscribers = {}
        /\ k01.isRunning = 0
        /\ ~registry

\* a scan returned on an incompatible model
C26_Witness ==
    /\ scan.pc = "returned"
    /\ scan.err = "incompatible"
    /\ scan.step = 3


(***************************************************************************)
(* SpecLife: the handler the scan found is connected and later             *)
(* disconnected, while the ECU sends messages and the user's commands call *)
(* readMessage on the registered handler.                                  *)
(***************************************************************************)
InitLife ==
    /\ src = NoSrc
    /\ InitDriver(<<>>)
    /\ IdleEcu

NextLife ==
    \/ Connect
    \/ Disconnect
    \/ \E serviceId \in ServiceFilters, subfunction \in SubfunctionFilters :
          registry /\ ReadMessageCall(serviceId, subfunction)
    \/ ReadMessageSubscribe \/ ReadMessageReceive
    \/ ReadMessageTimeout \/ ReadMessageCancelled \/ ReadMessageUnsubscribe
    \/ \E message \in EcuMessages :
          k01.broadcasts < MaxMessages /\ ProcessRead(message)
    \/ ProcessBroadcast \/ ProcessExit
    \/ TesterPresentLoopSend \/ TesterPresentLoopExit
    \/ CancelCtx

SpecLife == InitLife /\ [][NextLife]_vars

\* C27: after Disconnect, once the loops and a readMessage in progress have
\* come to their end, the handler's context is cancelled, both loops have
\* terminated, the broadcaster has no subscriber, the handler is not marked
\* running and the ECU service entry is deregistered.
C27_DisconnectTearsDown ==
    (/\ k01.disconnected
     /\ k01.testerPresentLoop = "done"
     /\ k01.processAndBroadcastUDSMessages = "done"
     /\ rm.pc \in {"idle", "returned"}) =>
        /\ EcuCtxDone
        /\ mb.subscribers = {}
        /\ ~registry
        /\ k01.isRunning = 0


(***************************************************************************)
(* SpecCleanup: a started serial link and a started ECU handler, each with *)
(* callers that invoke its Cleanup concurrently and repeatedly.  The port  *)
(* works, or its next read fails.                                          *)
(***************************************************************************)
InitCleanup ==
    /\ src = NoSrc
    /\ \E script \in {<<>>, <<ERRTOKEN>>} : InitDriver(script)
    /\ k01 = Start(NewK01) /\ mb = NewUDSMessageBroadcaster /\ registry = TRUE
    /\ rm = IdleReadMessage /\ scan = IdleScan /\ cu = IdleCleanup /\ kg = IdleKey
    /\ re = IdleReadErrors /\ fq = {}

NextCleanup ==
    \/ \E c \in Cleaners :
          \/ DriverCleanupCall(c) \/ DriverCleanupCAS(c) \/ DriverCleanupCancel(c)
          \/ DriverCleanupClose(c) \/ DriverCleanupBroadcaster(c)
          \/ DriverCleanupWait(c) \/ DriverCleanupPort(c)
          \/ CleanupCall(c) \/ CleanupRecall(c) \/ CleanupCAS(c) \/ CleanupCancel(c)
          \/ CleanupBroadcaster(c) \/ CleanupWait(c)
    \/ ReadErrorOther \/ ReaderExit \/ ValidatorCancelled \/ WriterCancelled
    \/ TesterPresentLoopExit \/ ProcessExit

SpecCleanup == InitCleanup /\ [][NextCleanup]_vars

\* the teardown body of K01.Cleanup ran exactly once
EcuTeardownOnce == cu.ecuSteps = <<"cancel", "broadcaster", "wait">>

\* the teardown body of ArduinoDriver.Cleanup ran exactly once
LinkTeardownOnce ==
    cu.linkSteps = <<"cancel", "closeRead", "closeWrite", "closeAck",
                     "broadcaster", "wait", "port">>

\* C28: once Cleanup has been invoked after Start and no call of it is in
\* progress, the teardown body has run exactly once, however many calls there
\* were and however they overlapped - for the ECU handler and for the serial
\* link.
C28_TeardownExactlyOnce ==
    /\ ((\E c \in Cleaners : cu.ecu[c] = "returned")
        /\ (\A c \in Cleaners : cu.ecu[c] \in {"idle", "returned"}))
          => EcuTeardownOnce
    /\ ((\E c \in Cleaners : cu.link[c] = "returned")
        /\ (\A c \in Cleaners : cu.link[c] \in {"idle", "returned"}))
          => LinkTeardownOnce


(***************************************************************************)
(* SpecKey: one call of GenerateK01Key, with any seed and any level.       *)
(***************************************************************************)
Seeds == (0..255) \X (0..255)

InitKey ==
    /\ src = NoSrc
    /\ InitDriver(<<>>)
    /\ IdleEcu

NextKey ==
    /\ kg.pc = "idle"
    /\ \E seed \in Seeds, level \in SecurityLevels : GenerateKey(seed, level)

SpecKey == InitKey /\ [][NextKey]_vars

\* the 16-bit product of the seed, read big-endian, and a magic number
KeyOf(seed, magic) == ((seed[1] * 256 + seed[2]) * magic) % 65536

\* C29: for level 2 and level 3 the call returns, without error, the high
\* byte and then the low byte of (seed * magic) mod 2^16, the magic number
\* being 0x4D4E and 0x6F31; for level 1 it returns the missing-magic error and
\* for any other level the invalid-level error, with a zero key.
C29_KeyFormula ==
    kg.pc = "returned" =>
        CASE kg.level = "SecurityLevel2" ->
                /\ kg.err = "none"
                /\ kg.key = <<KeyOf(kg.seed, 19790) \div 256, KeyOf(kg.seed, 19790) % 256>>
          [] kg.level = "SecurityLevel3" ->
                /\ kg.err = "none"
                /\ kg.key = <<KeyOf(kg.seed, 28465) \div 256, KeyOf(kg.seed, 28465) % 256>>
          [] kg.level = "SecurityLevel1" ->
                kg.err = ErrMissingMagic /\ kg.key = <<0, 0>>
          [] OTHER ->
                kg.err = ErrInvalidLevel /\ kg.key = <<0, 0>>

\* a key whose product overflowed 16 bits was returned
C29_Witness ==
    /\ kg.pc = "returned"
    /\ kg.level = "SecurityLevel3"
    /\ kg.seed = <<255, 255>>
    /\ kg.key = <<144, 207>>

\* C30, as stated: seed (0x00, 0x01) at level 2 gives [0x4D, 0x4E], and seed
\* (0x12, 0x34) at level 3 gives [0x39, 0xA4].
C30_Examples ==
    kg.pc = "returned" =>
        /\ (kg.seed = <<0, 1>> /\ kg.level = "SecurityLevel2") => kg.key = <<77, 78>>
        /\ (kg.seed = <<18, 52>> /\ kg.level = "SecurityLevel3") => kg.key = <<57, 164>>

\* C30, amended: seed (0x00, 0x01) at level 2 gives [0x4D, 0x4E], and seed
\* (0x12, 0x34) at level 3 gives [0x07, 0xF4].
C30_ExamplesAmended ==
    kg.pc = "returned" =>
        /\ (kg.seed = <<0, 1>> /\ kg.level = "SecurityLevel2") =>
              (kg.err = "none" /\ kg.key = <<77, 78>>)
        /\ (kg.seed = <<18, 52>> /\ kg.level = "SecurityLevel3") =>
              (kg.err = "none" /\ kg.key = <<7, 244>>)

\* the key for seed (0x12, 0x34) at level 3 was returned
C30_Witness ==
    /\ kg.pc = "returned"
    /\ kg.seed = <<18, 52>>
    /\ kg.level = "SecurityLevel3"


(***************************************************************************)
(* SpecPeer: one Message.Send of a two-frame request and one Read, while   *)
(* frames of the ECU and frames of another node of the bus are published.  *)
(***************************************************************************)
\* a CAN identifier that is neither the tester's nor the ECU's
ForeignID == 291

\* a flow control, a single frame and a first frame of the ECU, and the same
\* three frames of the other node (its flow control asks for STmin 5)
BusFrames ==
    {Frame(ECUID, 3, <<48, 0, 0>>),
     Frame(ECUID, 3, <<2, 126, 0>>),
     PeerFirstFrame(ECUID, Payload(8)),
     Frame(ForeignID, 3, <<48, 0, 5>>),
     Frame(ForeignID, 3, <<2, 126, 0>>),
     PeerFirstFrame(ForeignID, Payload(8))}

InitPeer ==
    /\ src = NoSrc
    /\ InitDriver(<<>>)
    /\ IdleEcu

NextPeer ==
    \/ \E ok \in BOOLEAN : MessageSend(Request(TesterID, 54, 1, Payload(6)), ok)
    \/ WaitFCSubscribe
    \/ WaitFCReceive
    \/ WaitFCTimeout
    \/ \E ok \in BOOLEAN : SendConsecutive(ok)
    \/ ReadCall
    \/ ReadReceive
    \/ \E ok \in BOOLEAN : SendFlowControl(ok)
    \/ MultiReceive
    \/ MultiTimeout
    \/ \E frame \in BusFrames :
          Published < MaxPublished /\ tx.pc # "cf" /\ PeerFrame(frame)

SpecPeer == InitPeer /\ [][NextPeer]_vars

\* C31: a frame whose ID is not ECUID is ignored whatever its PCI byte: when
\* waitForFlowControlFrame takes such a frame from its queue the send stays
\* as it was (it goes on waiting), and when Read's select takes one while
\* waiting for the start of a message the read stays as it was.
C31_ForeignFramesIgnored ==
    [][/\ (/\ tx.pc = "fc"
           /\ fcChan # <<>>
           /\ Head(fcChan).ID # ECUID
           /\ tx'.result # "errorFCFrameTimeout") => tx' = tx
       /\ (/\ rd.pc = "wait"
           /\ rdChan # <<>>
           /\ Head(rdChan).ID # ECUID) => rd' = rd]_vars


(***************************************************************************)
(* SpecErrors: one ReadErrors call; the request is sent or not, and        *)
(* readMessage fails or returns a positive response with any payload of up *)
(* to MaxDtcBytes bytes.                                                   *)
(***************************************************************************)
MaxDtcBytes == 5

DtcBytes == {1, 171, 240}

ErrorResponses ==
    {Message(ECUID, ServiceReadErrorsK01, IF data = <<>> THEN Nil ELSE data[1],
             Nil, data, TRUE, 1) : data \in SeqsUpTo(DtcBytes, MaxDtcBytes)}

InitErrors ==
    /\ src = NoSrc
    /\ InitDriver(<<>>)
    /\ IdleEcu

NextErrors ==
    \/ \E ok \in BOOLEAN : ReadErrorsSend(ok)
    \/ ReadErrorsReadFailed
    \/ \E resp \in ErrorResponses : ReadErrorsRead(resp)

SpecErrors == InitErrors /\ [][NextErrors]_vars

\* the codes of the complete 2-byte groups of data from offset 1
DtcCodes(data) ==
    [k \in 1..((Len(data) - 1) \div 2) |->
        Sprintf02X(data[2 * k]) \o Sprintf02X(data[(2 * k) + 1])]

\* C32: for every response payload ReadErrors returns, and what it returns
\* is exactly the codes of the complete 2-byte groups starting at offset 1
\* (bytes 1-2, 3-4, ...), as four upper-case hex digits, in payload order; a
\* trailing single byte forms no code.
C32_DtcsFromPairs ==
    (re.pc \in {"returned", "panicked"} /\ re.err = "none") =>
        /\ re.pc = "returned"
        /\ re.dtcs = DtcCodes(re.data)


(***************************************************************************)
(* SpecCancel: a started handler whose read loop calls uds.Read, the ECU   *)
(* sending frames, and one caller of K01.Cleanup.  No frame is published   *)
(* once the context is cancelled.                                          *)
(***************************************************************************)
\* a single frame, a first frame of 8 bytes and its consecutive frame, a
\* first frame of 5 bytes (complete in itself), and a flow control
CancelPeerFrames ==
    {Frame(ECUID, 3, <<2, 126, 0>>),
     PeerFirstFrame(ECUID, Payload(8)),
     PeerConsecutiveFrame(ECUID, Payload(8), 1, 1),
     Frame(ECUID, 8, <<16, 5>> \o Payload(5)),
     Frame(ECUID, 3, <<48, 0, 0>>)}

InitCancel ==
    /\ src = NoSrc
    /\ InitDriver(<<>>)
    /\ k01 = Start(NewK01) /\ mb = NewUDSMessageBroadcaster /\ rm = IdleReadMessage
    /\ scan = IdleScan /\ cu = IdleCleanup /\ registry = TRUE /\ kg = IdleKey
    /\ re = IdleReadErrors /\ fq = {}

\* the steps of the read loop and of the Read it calls
ReadLoopStep ==
    \/ ProcessCallRead
    \/ ReadReceive
    \/ \E ok \in BOOLEAN : SendFlowControl(ok)
    \/ MultiReceive
    \/ ReadCancelled
    \/ MultiCancelled
    \/ ProcessReadReturn
    \/ ProcessBroadcast
    \/ ProcessExit

\* the steps of K01.Cleanup's one caller
CleanupStep ==
    \/ CleanupCall(1) \/ CleanupCAS(1) \/ CleanupCancel(1)
    \/ CleanupBroadcaster(1) \/ CleanupWait(1)

NextCancel ==
    \/ ReadLoopStep
    \/ TesterPresentLoopExit
    \/ CleanupStep
    \/ \E frame \in CancelPeerFrames :
          Published < MaxPublished /\ ~EcuCtxDone /\ PeerFrame(frame)

SpecCancel == InitCancel /\ [][NextCancel]_vars

\* the same, every task scheduled again and again
FairSpecCancel ==
    SpecCancel /\ WF_vars(ReadLoopStep) /\ WF_vars(TesterPresentLoopExit)
               /\ WF_vars(CleanupStep)

\* how a Read ends for a reason other than its context: it handled a frame
\* it took, or the link did not take its flow control
OwnResults == {"nil", "panic", "errorUnexpectedFrameIndex", "fcSendError"}

\* C33: a Read whose context is cancelled returns with the cancellation
\* error from every state it can be in: when it ends while its context is
\* cancelled, in its wait for the first frame, after its flow control or in
\* its wait for consecutive frames, and not for a reason of its own, its
\* error is the context's.
C33_CancelledReadReturnsCanceled ==
    [][(/\ EcuCtxDone
        /\ rd.pc \in {"wait", "fcSend", "multi"}
        /\ rd'.pc = "done"
        /\ rd'.result \notin OwnResults) => rd'.result = "Canceled"]_vars

\* the cancelled read loop ends, and a Cleanup that has cancelled returns
CancelledLoopEnds ==
    /\ EcuCtxDone ~> (k01.processAndBroadcastUDSMessages \in {"done", "panicked"})
    /\ (cu.ecu[1] = "wait" /\ k01.processAndBroadcastUDSMessages # "panicked")
          ~> (cu.ecu[1] = "returned" \/ k01.processAndBroadcastUDSMessages = "panicked")


(***************************************************************************)
(* SpecAck: two concurrent callers of SendFrame, each with a frame of its  *)
(* own, the writer, the reader, and a device that answers every frame it   *)
(* is written, in order: it takes the frames of caller 1 (ACK) and refuses *)
(* those of caller 2 (NACK).                                               *)
(***************************************************************************)
\* the frame the device answers next: the answers follow the frames written,
\* which are the buffers enqueued, in order
AnsweredFrame == enqLog[AcksHandled + AcksInFlight(rx) + 1]

\* the device's answer to a written frame
DeviceVerdict(frameBytes) ==
    IF frameBytes = createFrameBytes(Frame(1, 0, <<>>)) THEN ArduinoACK ELSE ArduinoNACK

NextAck ==
    \/ \E c \in Callers : \E frame \in SendFrames : frame.ID = c /\ SendCall(c, frame)
    \/ \E c \in Callers : SendEnqueue(c)
    \/ \E c \in Callers : SendAck(c)
    \/ \E c \in Callers : SendAckTimeout(c)
    \/ \E c \in Callers : SendBackoff(c)
    \/ \E b \in {ArduinoACK, ArduinoNACK} :
          /\ AcksHandled + AcksInFlight(rx) < FramesWritten
          /\ b = DeviceVerdict(AnsweredFrame)
          /\ DeviceAnswer(b)
    \/ ReadTimeout \/ ReadAckByte
    \/ WriteFrame

SpecAck == InitSend /\ [][NextAck]_vars

\* the device has sent an ACK in answer to a transmission of caller c
AckSentFor(c) ==
    \E k \in 1..(AcksHandled + AcksInFlight(rx)) :
        /\ enqLog[k] = createFrameBytes(Frame(c, 0, <<>>))
        /\ DeviceVerdict(enqLog[k]) = ArduinoACK

\* C34: SendFrame returns success only if the device sent an ACK in answer
\* to a transmission made by that same call; an answer to another caller's
\* frame is never taken for it.
C34_SuccessMeansOwnAck ==
    \A c \in Callers : sf[c].result = "Ok" => AckSentFor(c)


(***************************************************************************)
(* SpecRelay: a started handler with its read loop, one subscriber of the  *)
(* message broadcaster, and the ECU sending single frames that the link    *)
(* publishes, the first of them once the loop is in its first uds.Read.    *)
(* Nothing is cancelled and no queue gets full.                            *)
(***************************************************************************)
\* three positive responses in a single frame each
RelayFrames ==
    {Frame(ECUID, 2, <<1, 126>>),
     Frame(ECUID, 3, <<2, 90, 2>>),
     Frame(ECUID, 4, <<3, 90, 5, 65>>)}

InitRelay ==
    /\ src = NoSrc
    /\ InitDriver(<<>>)
    /\ k01 = Start(NewK01)
    /\ mb = MessageSubscribe(NewUDSMessageBroadcaster)
    /\ rm = IdleReadMessage /\ scan = IdleScan /\ cu = IdleCleanup
    /\ registry = TRUE /\ kg = IdleKey /\ re = IdleReadErrors /\ fq = {}

NextRelay ==
    \/ ProcessCallRead
    \/ ReadReceive
    \/ ProcessReadReturn
    \/ ProcessBroadcast
    \/ \E frame \in RelayFrames :
          /\ Published < MaxPublished
          /\ (Published > 0 \/ rd.pc = "wait")
          /\ PeerFrame(frame)

SpecRelay == InitRelay /\ [][NextRelay]_vars

\* the frames the link has published, in order
PublishedFrames ==
    LET pubs == SelectSeq(evLog, LAMBDA e : e.kind = "pub")
    IN  [i \in 1..Len(pubs) |-> pubs[i].frame]

\* the read loop has nothing left to do: it waits in uds.Read with an empty
\* queue
RelayIdle ==
    /\ k01.processAndBroadcastUDSMessages = "read"
    /\ rd.pc = "wait"
    /\ rdChan = <<>>

\* C35: every single-frame message the link publishes while the read loop
\* runs is broadcast to the subscribers exactly once: once the loop is idle
\* again, the subscriber has been handed the message of every published
\* frame, once each and in order.
C35_EveryMessageBroadcast ==
    RelayIdle =>
        mb.delivered[1] =
            [i \in 1..Len(PublishedFrames) |->
                RawDataToMessage(PublishedFrames[i].ID,
                                 receiveSingleFrame(PublishedFrames[i]), TRUE)]


(***************************************************************************)
(* Replies and the subscriptions that wait for them, in SpecTpSend (the    *)
(* flow control after a first frame) and in SpecScan (the response after a *)
(* request).                                                               *)
(***************************************************************************)
\* a flow control was published after Send's first frame had been sent
FlowControlAfterFirstFrame ==
    \E i \in 1..Len(evLog), j \in 1..Len(evLog) :
        /\ i < j
        /\ evLog[i].kind = "send"
        /\ evLog[j].kind = "pub"
        /\ pciFrameType(evLog[j].frame) = PCIFrameTypeFC

\* waitForFlowControlFrame, subscribed and waiting, has the flow control
\* that was published after the first frame in its queue
FlowControlSeen ==
    (tx.pc = "fc" /\ FlowControlAfterFirstFrame) =>
        \E k \in 1..Len(fcChan) : pciFrameType(fcChan[k]) = PCIFrameTypeFC

\* the readMessage that follows a request, subscribed and waiting, has been
\* handed the response that was broadcast after the request's Send returned
ResponseSeen ==
    (/\ scan.pc = "read"
     /\ rm.pc = "select"
     /\ rm.messageChan # Nil
     /\ k01.broadcasts = scan.sends
     /\ k01.processAndBroadcastUDSMessages # "broadcast") =>
        mb.delivered[rm.messageChan] # <<>>

\* C36: a reply published after the triggering transmission completed is
\* always observed by the waiter, whatever the interleaving between its
\* publication and the waiter's Subscribe: the flow control published after
\* the first frame was sent is in waitForFlowControlFrame's queue, and the
\* response broadcast after Message.Send returned is handed to the
\* readMessage call that follows it.
C36_ReplyObserved == FlowControlSeen /\ ResponseSeen


(***************************************************************************)
(* SpecTeardown: the started link with its three loops, the port           *)
(* delivering an answer byte or a frame, one caller of SendFrame and one   *)
(* caller of Cleanup.  A step that lengthens a channel is the execution of *)
(* a send statement on it; on a closed channel that statement panics.      *)
(***************************************************************************)
TeardownScripts == {<<ArduinoACK>>, createFrameBytes(Frame(0, 0, <<>>))}

InitTeardown ==
    /\ src = NoSrc
    /\ \E script \in TeardownScripts : InitDriver(script)
    /\ IdleEcu

NextTeardown ==
    \/ DriverCleanupCall(1) \/ DriverCleanupCAS(1) \/ DriverCleanupCancel(1)
    \/ DriverCleanupClose(1) \/ DriverCleanupBroadcaster(1)
    \/ DriverCleanupWait(1) \/ DriverCleanupPort(1)
    \/ \E frame \in ProbeFrames : SendCall(1, frame)
    \/ SendEnqueue(1) \/ SendAck(1) \/ SendAckTimeout(1) \/ SendBackoff(1)
    \/ ReadTimeout \/ ReadAckByte \/ ReadStart \/ ReadData \/ ReadEnd
    \/ ReadSend \/ ReadSendCancelled \/ ReaderExit
    \/ ValidateFrame \/ BroadcastReturn \/ ValidatorCancelled
    \/ WriteFrame \/ WriterCancelled

SpecTeardown == InitTeardown /\ [][NextTeardown]_vars

\* Cleanup has executed the close of the channel
Closed(step) == \E i \in 1..Len(cu.linkSteps) : cu.linkSteps[i] = step

\* C37: during the link's Cleanup no task sends on the write queue, the read
\* queue or the ack channel after Cleanup has closed it, however Cleanup
\* interleaves with SendFrame, the serial read loop and frame validation.
C37_NoSendOnClosed ==
    [][/\ Closed("closeWrite") => Len(writeChan') <= Len(writeChan)
       /\ Closed("closeRead") => Len(readChan') <= Len(readChan)
       /\ Closed("closeAck") => Len(ackChan') <= Len(ackChan)]_vars

(***************************************************************************)
(* The ISO-TP layer beside the link's Cleanup: one Message.Send and one    *)
(* Read, each subscribed to the frame broadcaster while it waits, and one  *)
(* caller of ArduinoDriver.Cleanup, whose frameBroadcaster.Cleanup()       *)
(* closes the queues of the subscriptions open at that moment.  The        *)
(* caller's context of the Read may be cancelled at any time.              *)
(***************************************************************************)
\* a single frame, a first frame of an 8-byte message and a flow control
ClosedPeerFrames ==
    {Frame(ECUID, 3, <<2, 126, 0>>),
     PeerFirstFrame(ECUID, Payload(8)),
     Frame(ECUID, 3, <<48, 0, 0>>)}

\* a request of two frames
ClosedSendMessages == {Request(TesterID, 54, 1, Payload(6))}

InitClosed ==
    /\ src = NoSrc
    /\ InitDriver(<<>>)
    /\ IdleEcu

NextClosed ==
    \/ \E m \in ClosedSendMessages, ok \in BOOLEAN : MessageSend(m, ok)
    \/ WaitFCSubscribe \/ WaitFCReceive \/ WaitFCReceiveClosed \/ WaitFCTimeout
    \/ \E ok \in BOOLEAN : SendConsecutive(ok)
    \/ ReadCall \/ ReadReceive \/ ReadReceiveClosed \/ ReadCancelled
    \/ \E ok \in BOOLEAN : SendFlowControl(ok)
    \/ MultiReceive \/ MultiReceiveClosed \/ MultiTimeout
    \/ CancelCtx
    \/ DriverCleanupCall(1) \/ DriverCleanupCAS(1) \/ DriverCleanupCancel(1)
    \/ DriverCleanupClose(1) \/ DriverCleanupBroadcaster(1)
    \/ \E frame \in ClosedPeerFrames :
          Published < MaxPublished /\ ~ctxDone /\ PeerFrame(frame)

SpecClosed == InitClosed /\ [][NextClosed]_vars

\* the results with which a wait on a subscription ends in an error or a
\* cancellation
WaitErrors == {"Canceled", "errorMultiFrameReadTimeout", "errorFCFrameTimeout"}

\* C38: a wait on a subscription queue that the broadcaster's Cleanup has
\* closed, and that holds no frame any more, ends with an error or a
\* cancellation: the step that ends the wait of Read, of receiveMultiFrame
\* or of waitForFlowControlFrame leaves one of the wait's errors as the
\* result, and the step that ends readMessage's wait goes to its return
\* with the context's error.
C38_ClosedQueueEndsInError ==
    [][/\ (rd.pc = "wait" /\ "rd" \in fq /\ rdChan = <<>> /\ rd'.pc # "wait")
            => rd'.result \in WaitErrors
       /\ (rd.pc = "multi" /\ "mf" \in fq /\ mfChan = <<>> /\ rd'.pc # "multi")
            => rd'.result \in WaitErrors
       /\ (tx.pc = "fc" /\ "fc" \in fq /\ fcChan = <<>> /\ tx'.pc # "fc")
            => tx'.result \in WaitErrors
       /\ (/\ rm.pc = "select" /\ rm.messageChan # Nil
           /\ mb.closed[rm.messageChan] > 0 /\ mb.queue[rm.messageChan] = <<>>
           /\ rm'.pc # "select")
            => (rm'.pc = "defer" /\ rm'.err \in {"Canceled", "DeadlineExceeded"})
      ]_vars

(***************************************************************************)
(* The frame bodies that wait in readChan.  The read loop sends its        *)
(* buffer, a slice, and goes on with the same backing array: the next      *)
(* start marker sets buffer = buffer[:0], and the appends that follow      *)
(* write from the array's first byte.                                      *)
(***************************************************************************)
\* the bytes a holder of slice s reads in heap h
BytesIn(h, s) == IF s.arr = 0 THEN <<>> ELSE SubSeq(h[s.arr].bytes, 1, s.len)

\* C39: no step changes the bytes of a frame body that is waiting in
\* readChan for its validation: what readFrame takes out is what the read
\* loop put in.
C39_HandedBodyUnchanged ==
    [][\A i \in 1..Len(readChan) :
          BytesIn(heap', readChan[i]) = BytesIn(heap, readChan[i])]_vars

(***************************************************************************)
(* The read loop fed with single frames of every shape: the length nibble  *)
(* from 0 to 15, and raw data that is empty, a positive response (also one *)
(* whose first byte is below the offset 0x40) or a negative response of    *)
(* one, two, three or four bytes.                                          *)
(***************************************************************************)
DecodeFrames ==
    {Frame(ECUID, 8, <<n, 127, 26, 18, 1, 2, 3, 4>>) : n \in 0..15}
    \cup {Frame(ECUID, 3, <<2, 16, 3>>), Frame(ECUID, 2, <<1, 126>>)}

InitDecode == InitRelay

NextDecode ==
    \/ ProcessCallRead
    \/ ReadReceive
    \/ ProcessReadReturn
    \/ ProcessBroadcast
    \/ \E frame \in DecodeFrames :
          /\ Published < MaxPublished
          /\ (Published > 0 \/ rd.pc = "wait")
          /\ PeerFrame(frame)

SpecDecode == InitDecode /\ [][NextDecode]_vars

\* C40: the decode of a received frame never fails: Read does not panic,
\* and neither does the RawDataToMessage it calls, so the read loop is
\* never ended by a panic.
C40_DecodeTotal ==
    /\ rd.result # "panic"
    /\ k01.processAndBroadcastUDSMessages # "panicked"

====
